---- MODULE Spec2Model ----
(***************************************************************************)
(* State-machine model of the QuickBooks importer (import_script.py,       *)
(* quickbooks_client.py, models.py).  One run of process_imports walks the *)
(* invoices returned by QuickBooks, resolves each invoice's linked         *)
(* purchase order (LPO), stages rows in the SQLAlchemy session and commits *)
(* or rolls back per invoice.                                              *)
(*                                                                         *)
(* Conventions: an absent Python value (None) of a string attribute is the *)
(* empty string "" (the code tests all of them with `not x`); an absent    *)
(* sub-object (TxnTaxDetail, ItemRef, TaxCodeRef, Qty) is the empty        *)
(* sequence << >> and a present one is the one-element sequence <<v>>.     *)
(* Money is counted in cents, tax rates in hundredths (5 = Decimal 0.05).  *)
(***************************************************************************)
EXTENDS Integers, Sequences, FiniteSets, TLC

\* ------------------------------------------------------------------ bounds
MaxInvoices == 2
MaxRuns == 2
MaxPages == 2

\* ------------------------------------------------- the remote QuickBooks data
\* Vendor.get(id): a vendor id outside the domain makes get_supplier return None.
QBVendors ==
  [ V0 |-> [Id |-> "V0", DisplayName |-> "Zed",  Email |-> "z@zed",  Phone |-> ""],
    V1 |-> [Id |-> "V1", DisplayName |-> "Acme", Email |-> "a@acme", Phone |-> "111"],
    V2 |-> [Id |-> "V2", DisplayName |-> "Acme", Email |-> "b@acme", Phone |-> ""],
    V3 |-> [Id |-> "V3", DisplayName |-> "",     Email |-> "",       Phone |-> ""],
    V4 |-> [Id |-> "V4", DisplayName |-> "Bolt", Email |-> "",       Phone |-> "444"] ]

\* Item.get(id): an item id outside the domain makes get_material return None.
QBItems ==
  [ I0 |-> [Id |-> "I0", Name |-> "Zinc",   Type |-> "Inventory"],
    I1 |-> [Id |-> "I1", Name |-> "Steel",  Type |-> "Inventory"],
    I2 |-> [Id |-> "I2", Name |-> "Steel",  Type |-> "Service"],
    I3 |-> [Id |-> "I3", Name |-> "Labour", Type |-> "Service"],
    I4 |-> [Id |-> "I4", Name |-> "",       Type |-> "NonInventory"],
    I5 |-> [Id |-> "I5", Name |-> "Misc",   Type |-> "NonInventory"] ]

ItemLine(kind, ref, tax, qty, price, desc) ==
  [DetailType |-> kind, ItemRef |-> ref, TaxCodeRef |-> tax,
   Qty |-> qty, UnitPrice |-> price, Description |-> desc]

ExpLine(ref, tax, qty, price) ==
  ItemLine("ItemBasedExpenseLineDetail", ref, tax, qty, price, "po line")
SalesLine(ref, tax, qty, price) ==
  ItemLine("SalesItemLineDetail", ref, tax, qty, price, "inv line")
AccountLine ==
  ItemLine("AccountBasedExpenseLineDetail", << >>, << >>, << >>, << >>, "account")
SubTotalLine ==
  ItemLine("SubTotalLineDetail", << >>, << >>, << >>, << >>, "subtotal")

\* PurchaseOrder.get(id).  P1 and P3 carry the same DocNumber; P3 names a vendor
\* that cannot be fetched, P5 names none, P6 one without DisplayName; P4 has no
\* DocNumber; P7 has a line whose item has no Name; "P9" is outside the domain
\* (PurchaseOrder.get raises).
QBPurchaseOrders ==
  [ P0 |-> [Id |-> "P0", DocNumber |-> "L0", VendorRef |-> "V0", POStatus |-> "Closed",
            TotalAmt |-> 300, TxnTaxDetail |-> << >>,
            Line |-> << ExpLine(<<"I0">>, <<"NON">>, <<3>>, <<100>>) >>],
    P1 |-> [Id |-> "P1", DocNumber |-> "L1", VendorRef |-> "V1", POStatus |-> "Open",
            TotalAmt |-> 10500, TxnTaxDetail |-> <<500>>,
            Line |-> << ExpLine(<<"I1">>, <<"TAX">>, <<2>>, <<5000>>), AccountLine >>],
    P2 |-> [Id |-> "P2", DocNumber |-> "L2", VendorRef |-> "V2", POStatus |-> "Closed",
            TotalAmt |-> 2000, TxnTaxDetail |-> << >>,
            Line |-> << ExpLine(<<"I3">>, <<"NON">>, << >>, << >>),
                        ExpLine(<< >>, <<"TAX">>, <<1>>, <<100>>),
                        ExpLine(<<"I9">>, <<"TAX">>, <<1>>, <<100>>),
                        ExpLine(<<"I2">>, << >>, <<1>>, <<2000>>) >>],
    P3 |-> [Id |-> "P3", DocNumber |-> "L1", VendorRef |-> "V9", POStatus |-> "Open",
            TotalAmt |-> 700, TxnTaxDetail |-> <<0>>,
            Line |-> << >>],
    P4 |-> [Id |-> "P4", DocNumber |-> "", VendorRef |-> "V1", POStatus |-> "Open",
            TotalAmt |-> 100, TxnTaxDetail |-> << >>, Line |-> << >>],
    P5 |-> [Id |-> "P5", DocNumber |-> "L5", VendorRef |-> "", POStatus |-> "Open",
            TotalAmt |-> 100, TxnTaxDetail |-> << >>, Line |-> << >>],
    P6 |-> [Id |-> "P6", DocNumber |-> "L6", VendorRef |-> "V3", POStatus |-> "Open",
            TotalAmt |-> 100, TxnTaxDetail |-> << >>, Line |-> << >>],
    P7 |-> [Id |-> "P7", DocNumber |-> "L7", VendorRef |-> "V4", POStatus |-> "Open",
            TotalAmt |-> 300, TxnTaxDetail |-> <<400>>,
            Line |-> << ExpLine(<<"I5">>, <<"">>, <<1>>, <<300>>),
                        ExpLine(<<"I4">>, <<"TAX">>, <<1>>, <<100>>) >>] ]

Linked(type, id) == [TxnType |-> type, TxnId |-> id]

QBInvoice(id, doc, linked, total, tax, balance, lines) ==
  [Id |-> id, DocNumber |-> doc, LinkedTxn |-> linked, TotalAmt |-> total,
   TxnTaxDetail |-> tax, Balance |-> balance, Line |-> lines]

\* The invoices Invoice.query can deliver.
QBInvoices ==
  [ N1 |-> QBInvoice("N1", "INV1", << Linked("Payment", "X1"), Linked("PurchaseOrder", "P1") >>,
                     10500, <<500>>, 0,
                     << SalesLine(<<"I1">>, <<"TAX">>, <<2>>, <<5000>>),
                        SalesLine(<<"I3">>, <<"NON">>, <<1>>, << >>),
                        SubTotalLine,
                        SalesLine(<<"">>, <<"TAX">>, <<1>>, <<1>>) >>),
    N2 |-> QBInvoice("N2", "INV2", << Linked("PurchaseOrder", "P2") >>,
                     2000, << >>, 2000,
                     << SalesLine(<<"I2">>, << >>, <<1>>, <<2000>>),
                        SalesLine(<<"I9">>, <<"TAX">>, <<1>>, <<1>>) >>),
    N3 |-> QBInvoice("N3", "INV3", << Linked("PurchaseOrder", "P3") >>,
                     700, <<0>>, 100,
                     << SalesLine(<<"I3">>, <<"NON">>, <<1>>, <<700>>) >>),
    N4 |-> QBInvoice("N4", "INV1", << Linked("PurchaseOrder", "P2") >>,
                     999, << >>, 0,
                     << SalesLine(<<"I5">>, <<"">>, <<1>>, <<999>>) >>),
    N5 |-> QBInvoice("N5", "", << Linked("PurchaseOrder", "P1") >>,
                     100, << >>, 0, << >>),
    N6 |-> QBInvoice("N6", "INV6", << Linked("Payment", "X2") >>,
                     100, << >>, 0, << >>),
    N7 |-> QBInvoice("N7", "INV7", << Linked("PurchaseOrder", "P4") >>,
                     100, << >>, 0, << >>),
    N8 |-> QBInvoice("N8", "INV8", << Linked("PurchaseOrder", "P5") >>,
                     100, << >>, 0, << >>),
    N9 |-> QBInvoice("N9", "INV9", << Linked("PurchaseOrder", "P6") >>,
                     100, << >>, 0, << >>),
    N10 |-> QBInvoice("N10", "INV10", << Linked("PurchaseOrder", "P1") >>,
                     4000, <<100>>, 0,
                     << SalesLine(<<"I5">>, <<"TAX">>, <<1>>, <<3900>>),
                        SalesLine(<<"I4">>, <<"TAX">>, <<1>>, <<100>>) >>),
    N11 |-> QBInvoice("N11", "INV11", << Linked("PurchaseOrder", "P9") >>,
                     100, << >>, 0, << >>),
    N12 |-> QBInvoice("N12", "INV12", << Linked("PurchaseOrder", "P7") >>,
                     300, << >>, 0, << >>),
    N13 |-> QBInvoice("N13", "INV2", << >>, 100, << >>, 0, << >>),
    N14 |-> QBInvoice("N14", "INV14", << Linked("PurchaseOrder", "P2") >>,
                     100, << >>, 0, << >>) ]

Attachable(name, uri, download, upload) ==
  [FileName |-> name, FileAccessUri |-> uri, Download |-> download, Upload |-> upload]

\* Attachable.where(...) per owning object; Download is what the authenticated GET
\* of FileAccessUri yields ("ok", "http_error", "empty", or "raises" for an
\* exception that is not a requests exception), Upload what the blob service
\* answers for the file ("ok", "error").
QBAttachables ==
  [ P1 |-> << Attachable("po.pdf", "u1", "ok", "ok"),
              Attachable("", "u2", "ok", "ok") >>,
    P2 |-> << Attachable("scan.PNG", "u3", "ok", "error") >>,
    N1 |-> << Attachable("a.pdf", "u4", "ok", "ok"),
              Attachable("b.txt", "u5", "http_error", "ok"),
              Attachable("c.jpeg", "u6", "ok", "ok") >>,
    N2 |-> << Attachable("d.bin", "", "ok", "ok"),
              Attachable("e.jpg", "u7", "empty", "ok"),
              Attachable("f.png", "u8", "ok", "ok") >>,
    P3 |-> << Attachable("po3.pdf", "u12", "ok", "ok") >>,
    N3 |-> << Attachable("j.pdf", "u13", "ok", "ok") >>,
    N10 |-> << Attachable("g.pdf", "u9", "ok", "ok") >>,
    N14 |-> << Attachable("h.pdf", "u10", "ok", "ok"),
               Attachable("i.pdf", "u11", "raises", "ok") >> ]

\* ------------------------------------------------------------ the local store
Tables == {"projects", "users", "suppliers", "materials", "lpos", "lpo_items",
           "lpo_attachments", "invoices", "invoice_items", "invoice_attachments"}

EmptyDB == [t \in Tables |-> {}]

FirstIds == [t \in Tables |-> 1]

Ids(rows) == {r.id : r \in rows}

\* A column holding None is 0.  A row handed to its owner through the relationship
\* (lpo=db_lpo, invoice=db_invoice) gets the owner's id when it is flushed.
ThroughRelationship == -1

\* session.add: the object is pending, it has no id and no query sees it
\* (SessionLocal is made with autoflush=False).
session_add(ctx, t, row) ==
  [ctx EXCEPT !.pending = Append(@, [table |-> t, row |-> row]),
              !.lpo_id = IF t = "lpos" THEN 0 ELSE @,
              !.invoice_id = IF t = "invoices" THEN 0 ELSE @]

\* unique=True of models.py
UniqueKeysHold(d) ==
  /\ \A a, b \in d.projects : a.name = b.name => a = b
  /\ \A a, b \in d.users : a.email = b.email => a = b
  /\ \A a, b \in d.suppliers : a.name = b.name => a = b
  /\ \A a, b \in d.materials : a.name = b.name => a = b
  /\ \A a, b \in d.lpos : a.lpo_number = b.lpo_number => a = b
  /\ \A a, b \in d.invoices : a.invoice_number = b.invoice_number => a = b

\* nullable=False of models.py, for the columns the importer fills in
NotNullHold(d) ==
  /\ \A l \in d.lpos :
        l.lpo_number # "" /\ l.supplier_id # 0 /\ l.project_id # 0 /\ l.created_by_id # 0
  /\ \A i \in d.invoices :
        i.invoice_number # "" /\ i.supplier_id # 0 /\ i.project_id # 0 /\ i.created_by_id # 0
  /\ \A x \in d.lpo_items : x.lpo_id # 0 /\ x.material_id # 0
  /\ \A x \in d.invoice_items : x.invoice_id # 0 /\ x.material_id # 0
  /\ \A s \in d.suppliers : s.name # ""
  /\ \A m \in d.materials : m.name # ""

\* ForeignKey(...) of models.py; a NULL reference satisfies a foreign key.
ForeignKeysHold(d) ==
  /\ \A l \in d.lpos : /\ l.supplier_id \in Ids(d.suppliers) \cup {0}
                       /\ l.project_id \in Ids(d.projects) \cup {0}
                       /\ l.created_by_id \in Ids(d.users) \cup {0}
  /\ \A i \in d.invoices : /\ i.supplier_id \in Ids(d.suppliers) \cup {0}
                           /\ i.project_id \in Ids(d.projects) \cup {0}
                           /\ i.created_by_id \in Ids(d.users) \cup {0}
                           /\ i.lpo_id \in Ids(d.lpos) \cup {0}
  /\ \A x \in d.lpo_items : /\ x.lpo_id \in Ids(d.lpos) \cup {0}
                            /\ x.material_id \in Ids(d.materials) \cup {0}
  /\ \A x \in d.invoice_items : /\ x.invoice_id \in Ids(d.invoices) \cup {0}
                                /\ x.material_id \in Ids(d.materials) \cup {0}
  /\ \A x \in d.lpo_attachments : x.lpo_id \in Ids(d.lpos) \cup {0}
  /\ \A x \in d.invoice_attachments : x.invoice_id \in Ids(d.invoices) \cup {0}

\* The INSERT of the n-th pending object and of those after it: the row takes the
\* next id of its table, and a reference made through a relationship the id its
\* owner has by then.
RECURSIVE insert_pending(_, _)
insert_pending(ctx, n) ==
  IF n > Len(ctx.pending) THEN [ctx EXCEPT !.pending = << >>]
  ELSE LET t == ctx.pending[n].table
           r0 == ctx.pending[n].row
           r1 == IF t \in {"lpo_items", "lpo_attachments"}
                 THEN [r0 EXCEPT !.lpo_id = IF @ = ThroughRelationship THEN ctx.lpo_id ELSE @]
                 ELSE IF t \in {"invoice_items", "invoice_attachments"}
                 THEN [r0 EXCEPT !.invoice_id =
                                    IF @ = ThroughRelationship THEN ctx.invoice_id ELSE @]
                 ELSE r0
           r2 == [r1 EXCEPT !.id = ctx.seq[t]]
       IN insert_pending([ctx EXCEPT !.db[t] = @ \cup {r2},
                                     !.seq[t] = @ + 1,
                                     !.ret = ctx.seq[t],
                                     !.lpo_id = IF t = "lpos" THEN ctx.seq[t] ELSE @,
                                     !.invoice_id = IF t = "invoices" THEN ctx.seq[t] ELSE @],
                         n + 1)

\* The rows of two stores together, and the rows of one that the other lacks.
Merge(d, e) == [t \in Tables |-> d[t] \cup e[t]]
Less(d, e) == [t \in Tables |-> d[t] \ e[t]]

\* Mutant of Flush: the unique constraints are checked against the rows the
\* session sees only.
FlushSeenOnly(ctx, fk) ==
  IF ctx.err # "" THEN ctx
  ELSE LET c == insert_pending(ctx, 1)
       IN IF UniqueKeysHold(c.db) /\ NotNullHold(c.db) /\ (fk => ForeignKeysHold(c.db))
          THEN c
          ELSE [ctx EXCEPT !.err = "IntegrityError"]

\* session.flush(): every pending object is INSERTed; the database raises
\* IntegrityError on a violated constraint (foreign keys only where it enforces
\* them).  The database checks a unique constraint against every row it holds:
\* ctx.hidden are the rows committed by another session that the reads of this
\* session did not show, ctx.locked the rows another session has inserted and
\* not committed.  The INSERT of a key that a locked row holds waits for the
\* other transaction; the wait is a step not taken, or it ends with an error
\* (the unique violation when the other commits, a lock timeout, a deadlock).
Flush(ctx, fk) ==
  IF ctx.err # "" THEN ctx
  ELSE LET c == insert_pending(ctx, 1)
       IN IF ~(/\ UniqueKeysHold(Merge(c.db, ctx.hidden))
               /\ NotNullHold(c.db)
               /\ (fk => ForeignKeysHold(c.db)))
          THEN [ctx EXCEPT !.err = "IntegrityError"]
          ELSE IF ~UniqueKeysHold(Merge(Merge(c.db, ctx.hidden), ctx.locked))
          THEN [ctx EXCEPT !.err = "OperationalError"]
          ELSE c

\* `x or Decimal("0.0")`
OrZero(x) == IF x = << >> \/ x[1] = 0 THEN 0 ELSE x[1]

\* TxnTaxDetail.TotalTax if TxnTaxDetail else 0
TotalTax(doc) == IF doc.TxnTaxDetail # << >> THEN doc.TxnTaxDetail[1] ELSE 0

\* Mutant of Subtotal: the remote total is taken as the subtotal.
SubtotalIsTotal(doc) == doc.TotalAmt

\* TotalAmt - (TxnTaxDetail.TotalTax if TxnTaxDetail else 0)
Subtotal(doc) == doc.TotalAmt - TotalTax(doc)

\* Mutant of TaxRate: every item line is taxed at the flat rate.
TaxRateFlat(detail) == 5

\* the flat 5% of process_lpo_items / process_invoice_items, in hundredths
TaxRate(detail) ==
  IF detail.TaxCodeRef # << >> /\ detail.TaxCodeRef[1] # "NON" THEN 5 ELSE 0

Unit(qb_item) ==
  IF qb_item.Type = "Service" THEN "service"
  ELSE IF qb_item.Type = "Inventory" THEN "each"
  ELSE "nos"

\* .filter_by(...).first(): the matching row with the least id, as a set of 0 or 1 rows
First(rows) == {r \in rows : \A o \in rows : r.id <= o.id}

\* ------------------------------------------------------------ entity resolver
\* Mutant of supplier_by_name: the supplier is looked up by its email address.
supplier_by_email(d, qb_supplier) ==
  First({s \in d.suppliers : s.email = qb_supplier.Email})

\* session.query(models.Supplier).filter_by(name=supplier_name).first()
supplier_by_name(d, qb_supplier) ==
  First({s \in d.suppliers : s.name = qb_supplier.DisplayName})

get_or_create_supplier(ctx, qb_supplier, fk) ==
  IF qb_supplier.DisplayName = ""
  THEN [ctx EXCEPT !.err = "ValueError: no DisplayName"]
  ELSE LET db_supplier == supplier_by_name(ctx.db, qb_supplier)
       IN IF db_supplier # {}
          THEN [ctx EXCEPT !.ret = (CHOOSE s \in db_supplier : TRUE).id]
          ELSE Flush(session_add(ctx, "suppliers",
                                 [id |-> 0, name |-> qb_supplier.DisplayName,
                                  email |-> qb_supplier.Email,
                                  phone |-> qb_supplier.Phone]), fk)

\* Mutant of material_by_name: a material matches only with the unit of the item.
material_by_name_and_unit(d, qb_item) ==
  First({m \in d.materials : m.name = qb_item.Name /\ m.unit = Unit(qb_item)})

material_by_name(d, qb_item) ==
  First({m \in d.materials : m.name = qb_item.Name})

get_or_create_material(ctx, qb_item, fk) ==
  IF qb_item.Name = ""
  THEN [ctx EXCEPT !.err = "ValueError: no Name"]
  ELSE LET db_material == material_by_name(ctx.db, qb_item)
       IN IF db_material # {}
          THEN [ctx EXCEPT !.ret = (CHOOSE m \in db_material : TRUE).id]
          ELSE Flush(session_add(ctx, "materials",
                                 [id |-> 0, name |-> qb_item.Name,
                                  unit |-> Unit(qb_item)]), fk)

get_default_project(ctx, fk) ==
  LET db_project == First({p \in ctx.db.projects : p.name = "Default Imported Project"})
  IN IF db_project # {}
     THEN [ctx EXCEPT !.ret = (CHOOSE p \in db_project : TRUE).id]
     ELSE Flush(session_add(ctx, "projects",
                            [id |-> 0, name |-> "Default Imported Project"]), fk)

get_default_user(ctx, fk) ==
  LET db_user == First({u \in ctx.db.users : u.email = "import_admin@yourcompany.com"})
  IN IF db_user # {}
     THEN [ctx EXCEPT !.ret = (CHOOSE u \in db_user : TRUE).id]
     ELSE Flush(session_add(ctx, "users",
                            [id |-> 0, email |-> "import_admin@yourcompany.com"]), fk)

\* Mutant of process_line: a line whose item has no Name is skipped like a line
\* whose item cannot be fetched.
process_line_skips_unnamed(ctx, line, kind, table, owner, fk) ==
  IF ctx.err # "" THEN ctx
  ELSE IF line.DetailType # kind THEN ctx
  ELSE IF line.ItemRef = << >> \/ line.ItemRef[1] = "" THEN ctx
  ELSE IF line.ItemRef[1] \notin DOMAIN QBItems THEN ctx
  ELSE IF QBItems[line.ItemRef[1]].Name = "" THEN ctx
  ELSE LET c1 == get_or_create_material(ctx, QBItems[line.ItemRef[1]], fk)
       IN IF c1.err # "" THEN c1
          ELSE session_add(c1, table,
                           [id |-> 0, description |-> line.Description,
                            quantity |-> OrZero(line.Qty), rate |-> OrZero(line.UnitPrice),
                            tax_rate |-> TaxRate(line), material_id |-> c1.ret]
                           @@ (owner :> ThroughRelationship))

\* Mutant of process_line: a line without item reference, or with an item that
\* cannot be fetched, raises instead of being skipped.
process_line_strict(ctx, line, kind, table, owner, fk) ==
  IF ctx.err # "" THEN ctx
  ELSE IF line.DetailType # kind THEN ctx
  ELSE IF line.ItemRef = << >> \/ line.ItemRef[1] = "" \/ line.ItemRef[1] \notin DOMAIN QBItems
  THEN [ctx EXCEPT !.err = "ValueError: no Name"]
  ELSE LET c1 == get_or_create_material(ctx, QBItems[line.ItemRef[1]], fk)
       IN IF c1.err # "" THEN c1
          ELSE session_add(c1, table,
                           [id |-> 0, description |-> line.Description,
                            quantity |-> OrZero(line.Qty), rate |-> OrZero(line.UnitPrice),
                            tax_rate |-> TaxRate(line), material_id |-> c1.ret]
                           @@ (owner :> ThroughRelationship))

\* ---------------------------------------------------------- document assembler
\* One pass of the loop body of process_lpo_items / process_invoice_items:
\* `kind` is the DetailType the loop accepts, `table` the item table and
\* `owner` the column of the owning document, set through the relationship.
process_line(ctx, line, kind, table, owner, fk) ==
  IF ctx.err # "" THEN ctx
  ELSE IF line.DetailType # kind THEN ctx
  ELSE IF line.ItemRef = << >> \/ line.ItemRef[1] = "" THEN ctx
  ELSE IF line.ItemRef[1] \notin DOMAIN QBItems THEN ctx
  ELSE LET c1 == get_or_create_material(ctx, QBItems[line.ItemRef[1]], fk)
       IN IF c1.err # "" THEN c1
          ELSE session_add(c1, table,
                           [id |-> 0, description |-> line.Description,
                            quantity |-> OrZero(line.Qty), rate |-> OrZero(line.UnitPrice),
                            tax_rate |-> TaxRate(line), material_id |-> c1.ret]
                           @@ (owner :> ThroughRelationship))

RECURSIVE process_lines(_, _, _, _, _, _, _)
process_lines(ctx, lines, n, kind, table, owner, fk) ==
  IF n > Len(lines) THEN ctx
  ELSE process_lines(process_line(ctx, lines[n], kind, table, owner, fk),
                     lines, n + 1, kind, table, owner, fk)

process_lpo_items(ctx, qb_lpo, fk) ==
  process_lines(ctx, qb_lpo.Line, 1, "ItemBasedExpenseLineDetail",
                "lpo_items", "lpo_id", fk)

process_invoice_items(ctx, qb_invoice, fk) ==
  process_lines(ctx, qb_invoice.Line, 1, "SalesItemLineDetail",
                "invoice_items", "invoice_id", fk)

\* ------------------------------------------------------- attachment relocation
get_attachments(qb_object_id) ==
  IF qb_object_id \in DOMAIN QBAttachables THEN QBAttachables[qb_object_id] ELSE << >>

\* ret: << >> is None, <<c>> the response content ("" for an empty body).  Only
\* requests.exceptions.RequestException is caught; err is any other exception
\* raised inside the try block, which leaves the function.
download_attachment(att) ==
  IF att.FileAccessUri = "" THEN [ret |-> << >>, err |-> ""]
  ELSE IF att.Download = "http_error" THEN [ret |-> << >>, err |-> ""]
  ELSE IF att.Download = "raises"
  THEN [ret |-> << >>, err |-> "Exception in download_attachment"]
  ELSE IF att.Download = "empty" THEN [ret |-> << "" >>, err |-> ""]
  ELSE [ret |-> << "bytes" >>, err |-> ""]

\* Mutant of upload_attachment_to_azure: the address of the blob is returned
\* although the upload raised.
upload_unchecked(ctx, blob_service_client, att) ==
  IF ~blob_service_client THEN [ctx EXCEPT !.url = << >>]
  ELSE LET unique_file_name == << ctx.uuid, att.FileName >>
           c1 == [ctx EXCEPT !.uuid = @ + 1]
       IN IF att.Upload # "ok" THEN [c1 EXCEPT !.url = << unique_file_name >>]
          ELSE [c1 EXCEPT !.blobs = @ \cup {unique_file_name},
                          !.url = << unique_file_name >>]

\* ret is << >> for None and <<url>> otherwise; the blob name is the file name
\* prefixed with a fresh uuid4, here the next value of a counter.
upload_attachment_to_azure(ctx, blob_service_client, att) ==
  IF ~blob_service_client THEN [ctx EXCEPT !.url = << >>]
  ELSE LET unique_file_name == << ctx.uuid, att.FileName >>
           c1 == [ctx EXCEPT !.uuid = @ + 1]
       IN IF att.Upload # "ok" THEN [c1 EXCEPT !.url = << >>]
          ELSE [c1 EXCEPT !.blobs = @ \cup {unique_file_name},
                          !.url = << unique_file_name >>]

\* One pass of the loop body of process_attachments.
process_attachment(ctx, att, qb_object_type, blob_service_client) ==
  IF att.FileName = "" THEN ctx
  ELSE LET file_content == download_attachment(att)
       IN IF file_content.err # "" THEN [ctx EXCEPT !.err = file_content.err]
          ELSE IF file_content.ret = << >> \/ file_content.ret[1] = "" THEN ctx
          ELSE LET c1 == upload_attachment_to_azure(ctx, blob_service_client, att)
               IN IF c1.url = << >> THEN c1
                  ELSE IF qb_object_type = "PurchaseOrder"
                  THEN session_add(c1, "lpo_attachments",
                                   [id |-> 0, blob_url |-> c1.url[1],
                                    file_name |-> att.FileName,
                                    lpo_id |-> ThroughRelationship])
                  ELSE IF qb_object_type = "Invoice"
                  THEN session_add(c1, "invoice_attachments",
                                   [id |-> 0, blob_url |-> c1.url[1],
                                    file_name |-> att.FileName,
                                    invoice_id |-> ThroughRelationship])
                  ELSE c1

RECURSIVE attachments_from(_, _, _, _, _)
attachments_from(ctx, atts, n, qb_object_type, blob_service_client) ==
  IF n > Len(atts) \/ ctx.err # "" THEN ctx
  ELSE attachments_from(
         process_attachment(ctx, atts[n], qb_object_type, blob_service_client),
         atts, n + 1, qb_object_type, blob_service_client)

process_attachments(ctx, blob_service_client, qb_object_type, qb_object_id) ==
  IF ctx.err # "" THEN ctx
  ELSE attachments_from(ctx, get_attachments(qb_object_id), 1,
                        qb_object_type, blob_service_client)

\* ------------------------------------------------------------ remote lookups
\* << >> is None, <<po>> the fetched purchase order.
RECURSIVE linked_lpo_from(_, _)
linked_lpo_from(txns, n) ==
  IF n > Len(txns) THEN << >>
  ELSE IF txns[n].TxnType = "PurchaseOrder"
       THEN IF txns[n].TxnId \in DOMAIN QBPurchaseOrders
            THEN << QBPurchaseOrders[txns[n].TxnId] >>
            ELSE << >>
       ELSE linked_lpo_from(txns, n + 1)

get_lpo_for_invoice(invoice) ==
  IF invoice.LinkedTxn = << >> THEN << >> ELSE linked_lpo_from(invoice.LinkedTxn, 1)

\* Mutant of get_supplier: a vendor that cannot be fetched is taken to be V1.
get_supplier_or_first(supplier_id) ==
  IF supplier_id \in DOMAIN QBVendors THEN << QBVendors[supplier_id] >> ELSE << QBVendors["V1"] >>

get_supplier(supplier_id) ==
  IF supplier_id \in DOMAIN QBVendors THEN << QBVendors[supplier_id] >> ELSE << >>

\* ------------------------------------------- the two staging steps of an invoice
\* The LPO header as process_imports builds it (4b).
lpo_header(qb_lpo, supplier_id, project_id, user_id) ==
  [id |-> 0, lpo_number |-> qb_lpo.DocNumber, status |-> qb_lpo.POStatus,
   subtotal |-> Subtotal(qb_lpo), tax_total |-> TotalTax(qb_lpo),
   grand_total |-> qb_lpo.TotalAmt, supplier_id |-> supplier_id,
   project_id |-> project_id, created_by_id |-> user_id]

\* Mutant of flush_lpo: the order is not flushed before the invoice is built.
no_flush(ctx, fk) == ctx

\* "We must flush here so the LPO gets an ID before the Invoice uses it"
flush_lpo(ctx, fk) == Flush(ctx, fk)

\* Step 4 of process_imports when no LPO row has the number: supplier, header,
\* items, attachments, flush.  obj is the db_lpo object, err what was raised.
create_lpo(ctx, qb_lpo, project_id, user_id, blob_service_client, fk) ==
  IF qb_lpo.VendorRef = ""
  THEN [ctx EXCEPT !.err = "LPO has no Supplier (VendorRef)"]
  ELSE LET qb_supplier == get_supplier(qb_lpo.VendorRef)
       IN IF qb_supplier = << >>
          THEN [ctx EXCEPT !.err = "Supplier not found in QB"]
          ELSE LET c1 == get_or_create_supplier(ctx, qb_supplier[1], fk)
               IN IF c1.err # "" THEN c1
                  ELSE LET header == lpo_header(qb_lpo, c1.ret, project_id, user_id)
                           c2 == session_add(c1, "lpos", header)
                           c3 == process_lpo_items(c2, qb_lpo, fk)
                           c4 == process_attachments(c3, blob_service_client,
                                                     "PurchaseOrder", qb_lpo.Id)
                           c5 == flush_lpo(c4, fk)
                       IN [c5 EXCEPT !.obj = [header EXCEPT !.id = c5.lpo_id]]

InvoiceStatus(qb_invoice) == IF qb_invoice.Balance = 0 THEN "Paid" ELSE "Pending"

\* Mutant of invoice_header: the invoice names the first supplier row instead of
\* its order's supplier.
invoice_header_first_supplier(qb_invoice, db_lpo) ==
  [id |-> 0, invoice_number |-> qb_invoice.DocNumber, lpo_id |-> db_lpo.id,
   status |-> InvoiceStatus(qb_invoice), subtotal |-> Subtotal(qb_invoice),
   tax_total |-> TotalTax(qb_invoice), grand_total |-> qb_invoice.TotalAmt,
   supplier_id |-> 1, project_id |-> db_lpo.project_id,
   created_by_id |-> db_lpo.created_by_id]

\* Mutant of invoice_header: the header is built without the link to its order.
invoice_header_unlinked(qb_invoice, db_lpo) ==
  [id |-> 0, invoice_number |-> qb_invoice.DocNumber, lpo_id |-> 0,
   status |-> InvoiceStatus(qb_invoice), subtotal |-> Subtotal(qb_invoice),
   tax_total |-> TotalTax(qb_invoice), grand_total |-> qb_invoice.TotalAmt,
   supplier_id |-> db_lpo.supplier_id, project_id |-> db_lpo.project_id,
   created_by_id |-> db_lpo.created_by_id]

\* The invoice header as process_imports builds it (5), from the db_lpo object.
invoice_header(qb_invoice, db_lpo) ==
  [id |-> 0, invoice_number |-> qb_invoice.DocNumber, lpo_id |-> db_lpo.id,
   status |-> InvoiceStatus(qb_invoice), subtotal |-> Subtotal(qb_invoice),
   tax_total |-> TotalTax(qb_invoice), grand_total |-> qb_invoice.TotalAmt,
   supplier_id |-> db_lpo.supplier_id, project_id |-> db_lpo.project_id,
   created_by_id |-> db_lpo.created_by_id]

\* Mutant of create_invoice: the attachments of the linked order are relocated
\* again with every invoice of the order.
create_invoice_and_order_attachments(ctx, qb_invoice, db_lpo, blob_service_client, fk) ==
  LET c1 == session_add(ctx, "invoices", invoice_header(qb_invoice, db_lpo))
      c2 == process_invoice_items(c1, qb_invoice, fk)
      c3 == process_attachments(c2, blob_service_client, "Invoice", qb_invoice.Id)
  IN process_attachments(c3, blob_service_client, "PurchaseOrder",
                         get_lpo_for_invoice(qb_invoice)[1].Id)

\* Mutant of create_invoice: the header alone is staged before the commit.
create_invoice_header_only(ctx, qb_invoice, db_lpo, blob_service_client, fk) ==
  session_add(ctx, "invoices", invoice_header(qb_invoice, db_lpo))

\* Steps 5 to 7 of process_imports: header, items, attachments (no flush of its own).
create_invoice(ctx, qb_invoice, db_lpo, blob_service_client, fk) ==
  LET c1 == session_add(ctx, "invoices", invoice_header(qb_invoice, db_lpo))
      c2 == process_invoice_items(c1, qb_invoice, fk)
  IN process_attachments(c2, blob_service_client, "Invoice", qb_invoice.Id)

\* ------------------------------------------------------------------ the state
VARIABLES
  remote_invoices,     \* what Invoice.query answers, the same in every run
  qb_keys,             \* the QuickBooks settings that config.py found in the environment
  qb_connects,         \* FALSE when get_qb_client cannot set the client up (returns None)
  db_available,        \* FALSE when the first query of the session raises
  query_raises,        \* TRUE when Invoice.query raises
  raising_query,       \* which Invoice.query call of a fetch raises, when one does
  limit,               \* the limit argument: << >> is None, <<n>> the integer n
  fk_enforced,         \* whether the database behind DATABASE_URL enforces foreign keys
  blob_service_client, \* FALSE when get_azure_blob_service_client returned None
  run,                 \* number of the current run of process_imports (0: none yet)
  pc,                  \* position inside process_imports
  qb_invoices,         \* the list the run iterates over
  idx,                 \* position of the for loop in qb_invoices
  db,                  \* the rows the session's transaction sees (flushed or committed)
  pending,             \* session.new: objects added and not flushed yet
  committed,           \* the rows that are durable
  seq,                 \* next id of every table (sequences are not rolled back)
  blobs,               \* names stored in the blob container
  uuid,                \* uuid4 values used so far
  default_project,     \* default_project.id as the Python object holds it
  default_user,        \* default_user.id as the Python object holds it
  qb_lpo,              \* Id of the purchase order linked to the current invoice
  db_lpo,              \* the LPO object of the current invoice
  db_invoice,          \* db_invoice.id of the current invoice (0: none yet)
  err,                 \* the exception on its way to the except clause
  counts,              \* success_count, skipped_count, fail_count
  outcomes,            \* what the process logged per invoice, over all its runs
  start_store,         \* the committed store when the current run started
  session,             \* the storage session of the run: "none", "open", "closed"
  contacted,           \* the collaborators the run has called so far
  summary,             \* << >>, or <<counts>> once the run has logged its summary
  queried,             \* the start positions of the invoice queries of the run
  parked               \* the variables of the other importer process, if one runs

vars == << remote_invoices, qb_keys, qb_connects, db_available, query_raises,
           raising_query, limit,
           fk_enforced, blob_service_client, run, pc, qb_invoices,
           idx, db, pending, committed, seq, blobs, uuid, default_project,
           default_user, qb_lpo, db_lpo, db_invoice, err, counts, outcomes,
           start_store, session, contacted, summary, queried, parked >>

\* The other process on the same store; no step of process_imports touches it.
peer == << parked >>

env == << remote_invoices, qb_keys, qb_connects, db_available, query_raises,
          raising_query, limit,
          fk_enforced, blob_service_client >>

\* What happens between the credential check and the end of a run of the loop.
trail == << session, contacted, summary, queried >>

InvoiceLists ==
  UNION {[1..n -> DOMAIN QBInvoices] : n \in 0..MaxInvoices}

NoLpo == [id |-> 0, lpo_number |-> "", status |-> "", subtotal |-> 0, tax_total |-> 0,
          grand_total |-> 0, supplier_id |-> 0, project_id |-> 0, created_by_id |-> 0]

\* The session and the collaborators as the helper functions see them.
Ctx == [db |-> db, pending |-> pending, seq |-> seq, blobs |-> blobs, uuid |-> uuid,
        lpo_id |-> db_lpo.id, invoice_id |-> db_invoice,
        err |-> "", ret |-> 0, url |-> << >>, obj |-> NoLpo,
        hidden |-> Less(committed, db), locked |-> Less(parked.db, committed)]

Outcome(result, reason, created_lpo) ==
  [run |-> run, pos |-> idx, invoice |-> qb_invoices[idx].Id,
   number |-> qb_invoices[idx].DocNumber, result |-> result, reason |-> reason,
   created_lpo |-> created_lpo]

\* The settings all_qb_keys_present asks for.
QBKeys == {"QB_CLIENT_ID", "QB_CLIENT_SECRET", "QB_ACCESS_TOKEN", "QB_REFRESH_TOKEN",
           "QB_REALM_ID"}

\* Environments of a run: every setting present, one missing, none present.
KeySets == {QBKeys} \cup {QBKeys \ {k} : k \in QBKeys} \cup {{}}

\* The limit arguments tried: 0 and the positive numbers below MaxInvoices.
Limits == {<< n >> : n \in 0..(MaxInvoices - 1)}

\* The variables of one importer process.
Local ==
  [run |-> run, pc |-> pc, qb_invoices |-> qb_invoices, idx |-> idx, db |-> db,
   pending |-> pending, default_project |-> default_project,
   default_user |-> default_user, qb_lpo |-> qb_lpo, db_lpo |-> db_lpo,
   db_invoice |-> db_invoice, err |-> err, counts |-> counts,
   outcomes |-> outcomes, start_store |-> start_store, session |-> session,
   contacted |-> contacted, summary |-> summary, queried |-> queried]

\* A process that has not been started, over the store d.
NotStarted(d, r) ==
  [run |-> r, pc |-> "idle", qb_invoices |-> << >>, idx |-> 0, db |-> d,
   pending |-> << >>, default_project |-> 0, default_user |-> 0, qb_lpo |-> "",
   db_lpo |-> NoLpo, db_invoice |-> 0, err |-> "",
   counts |-> [success |-> 0, skipped |-> 0, fail |-> 0], outcomes |-> << >>,
   start_store |-> d, session |-> "none", contacted |-> {}, summary |-> << >>,
   queried |-> << >>]

\* No second process: one that has ended and holds no row.
NoPeer == [NotStarted(EmptyDB, 0) EXCEPT !.pc = "done"]

\* Before the first run: an empty store, nothing in the session.
Idle ==
  /\ session = "none"
  /\ contacted = {}
  /\ summary = << >>
  /\ queried = << >>
  /\ run = 0
  /\ pc = "idle"
  /\ qb_invoices = << >>
  /\ idx = 0
  /\ db = EmptyDB
  /\ pending = << >>
  /\ committed = EmptyDB
  /\ seq = FirstIds
  /\ blobs = {}
  /\ uuid = 1
  /\ default_project = 0
  /\ default_user = 0
  /\ qb_lpo = ""
  /\ db_lpo = NoLpo
  /\ db_invoice = 0
  /\ err = ""
  /\ counts = [success |-> 0, skipped |-> 0, fail |-> 0]
  /\ outcomes = << >>
  /\ start_store = EmptyDB
  /\ parked = NoPeer

\* Before the first run, for every short list of invoices the Source may hold.
Start ==
  /\ remote_invoices \in InvoiceLists
  /\ fk_enforced \in BOOLEAN
  /\ blob_service_client \in BOOLEAN
  /\ Idle

\* The importer run without limit where the settings are complete, QuickBooks
\* connects and answers the invoice query, and the database answers.
Init ==
  /\ Start
  /\ qb_keys = QBKeys
  /\ qb_connects = TRUE
  /\ db_available = TRUE
  /\ query_raises = FALSE
  /\ raising_query = 1
  /\ limit = << >>

\* Every environment of the importer run without limit in which at most one
\* thing is out of the ordinary: a setting is missing, or QuickBooks does not
\* connect, or the database does not answer, or the invoice query raises.  The
\* prologue of process_imports stops at the first of these, so a second one
\* behind it is never looked at.
RunInit ==
  /\ Start
  /\ qb_keys \in KeySets
  /\ qb_connects \in BOOLEAN
  /\ db_available \in BOOLEAN
  /\ query_raises \in BOOLEAN
  /\ raising_query = 1
  /\ limit = << >>
  /\ Cardinality({x \in {<<1, qb_keys = QBKeys>>, <<2, qb_connects>>, <<3, db_available>>,
                         <<4, ~query_raises>>} : ~x[2]}) <= 1

\* The importer called with a limit, everything else in order.
LimitInit ==
  /\ Start
  /\ qb_keys = QBKeys
  /\ qb_connects = TRUE
  /\ db_available = TRUE
  /\ query_raises = FALSE
  /\ raising_query = 1
  /\ limit \in Limits

\* max_results = 100, the page size of the unlimited fetch
MaxResults == 100

\* The sizes of the result set tried for the paginated fetch: none, one, and one
\* less than, exactly and one more than each number of full pages.
SourceSizes ==
  {0, 1} \cup {k * MaxResults + d : k \in 1..MaxPages, d \in {-1, 0, 1}}

\* A result set of n invoices: an importable invoice, one whose order has no
\* supplier, one without linked order and one without DocNumber, over and over.
PagedList(n) ==
  [i \in 1..n |-> << "N1", "N8", "N6", "N5" >>[((i - 1) % 4) + 1]]

\* The importer run without limit against a long result set, where any one of
\* the queries of the fetch may raise.
PageInit ==
  /\ Idle
  /\ remote_invoices \in {PagedList(n) : n \in SourceSizes}
  /\ fk_enforced = TRUE
  /\ blob_service_client = TRUE
  /\ qb_keys = QBKeys
  /\ qb_connects = TRUE
  /\ db_available = TRUE
  /\ query_raises \in BOOLEAN
  /\ raising_query \in 1..(MaxPages + 2)
  /\ ~query_raises => raising_query = 1
  /\ limit = << >>

\* Mutant of all_qb_keys_present: the company id is not asked for.
all_but_realm_id_present == (QBKeys \ {"QB_REALM_ID"}) \subseteq qb_keys

\* config.all_qb_keys_present()
all_qb_keys_present == QBKeys \subseteq qb_keys

\* Mutant of get_qb_client: the client is returned although the connection test
\* raised.
get_qb_client_untested == TRUE

\* qb.get_qb_client(): the client, or None (FALSE) when setting it up raised.
get_qb_client == qb_connects

\* Invoice.query(... STARTPOSITION start_pos MAXRESULTS max_results): the
\* invoices of the result set from position start_pos on, max_results at most.
Query(start_pos, max_results) ==
  LET all == [i \in 1..Len(remote_invoices) |-> QBInvoices[remote_invoices[i]]]
      last == IF start_pos + max_results - 1 < Len(all)
              THEN start_pos + max_results - 1 ELSE Len(all)
  IN SubSeq(all, start_pos, last)

\* Mutant of fetch_pages: the loop ends with the first page that is not full and
\* advances by the size of the page it received.
RECURSIVE fetch_pages_until_short(_, _, _)
fetch_pages_until_short(all_invoices, start_pos, asked) ==
  IF query_raises /\ raising_query = Len(asked) + 1
  THEN [invoices |-> all_invoices, asked |-> Append(asked, start_pos), raised |-> TRUE]
  ELSE LET invoices_batch == Query(start_pos, MaxResults)
       IN IF Len(invoices_batch) < MaxResults
          THEN [invoices |-> all_invoices \o invoices_batch,
                asked |-> Append(asked, start_pos), raised |-> FALSE]
          ELSE fetch_pages_until_short(all_invoices \o invoices_batch,
                                       start_pos + Len(invoices_batch),
                                       Append(asked, start_pos))

\* The while loop of get_invoices: asked lists the start positions of the
\* queries made so far; raised tells that the next query raised.
RECURSIVE fetch_pages(_, _, _)
fetch_pages(all_invoices, start_pos, asked) ==
  IF query_raises /\ raising_query = Len(asked) + 1
  THEN [invoices |-> all_invoices, asked |-> Append(asked, start_pos), raised |-> TRUE]
  ELSE LET invoices_batch == Query(start_pos, MaxResults)
       IN IF invoices_batch = << >>
          THEN [invoices |-> all_invoices, asked |-> Append(asked, start_pos),
                raised |-> FALSE]
          ELSE fetch_pages(all_invoices \o invoices_batch, start_pos + MaxResults,
                           Append(asked, start_pos))

\* The try block of get_invoices: with a limit that is truthy one query with
\* MAXRESULTS limit, otherwise the pages.
fetch_invoices(lim) ==
  IF lim # << >> /\ lim[1] # 0
  THEN [invoices |-> IF query_raises /\ raising_query = 1 THEN << >>
                     ELSE Query(1, lim[1]),
        asked |-> << 1 >>,
        raised |-> query_raises /\ raising_query = 1]
  ELSE fetch_pages(<< >>, 1, << >>)

\* Mutant of get_invoices: when a query raises, the pages fetched before it are
\* returned.
get_invoices_keeps_pages(lim) == fetch_invoices(lim).invoices

\* qb.get_invoices(qb_client, start_date, end_date, limit): what the try block
\* returns, or [] when a query raised.
get_invoices(lim) ==
  IF fetch_invoices(lim).raised THEN << >> ELSE fetch_invoices(lim).invoices

\* Mutant of Rollback: only the pending objects are dropped (expunge_all), the
\* flushed rows stay in the transaction.
RollbackKeepsFlushed == [db |-> db, pending |-> << >>]

\* Session.rollback(): what the transaction flushed or holds pending is gone.  The
\* Python objects of the expunged rows keep their attribute values, so
\* default_project.id and default_user.id are unchanged.
Rollback == [db |-> committed, pending |-> << >>]

\* process_imports up to the for loop: credential check, session and clients,
\* default rows, fetch.  A missing setting returns at once; without a QuickBooks
\* client the session is closed and the function returns; an exception of the
\* default rows is caught by the outer handler (rollback, close, summary).
StartRun ==
  /\ pc \in {"idle", "done"}
  /\ run < MaxRuns
  /\ run' = run + 1
  /\ idx' = 1
  /\ counts' = [success |-> 0, skipped |-> 0, fail |-> 0]
  /\ start_store' = committed
  /\ IF ~all_qb_keys_present
     THEN /\ session' = "none"
          /\ contacted' = {}
          /\ summary' = << >>
          /\ queried' = << >>
          /\ qb_invoices' = << >>
          /\ pc' = "done"
          /\ UNCHANGED << db, pending, seq, default_project, default_user >>
     ELSE IF ~get_qb_client
     THEN /\ session' = "closed"
          /\ contacted' = {"blob", "quickbooks"}
          /\ summary' = << >>
          /\ queried' = << >>
          /\ qb_invoices' = << >>
          /\ pc' = "done"
          /\ UNCHANGED << db, pending, seq, default_project, default_user >>
     ELSE IF ~db_available
     THEN /\ session' = "closed"
          /\ contacted' = {"blob", "quickbooks", "database"}
          /\ summary' = << counts' >>
          /\ queried' = << >>
          /\ qb_invoices' = << >>
          /\ pc' = "done"
          /\ db' = Rollback.db
          /\ pending' = Rollback.pending
          /\ UNCHANGED << seq, default_project, default_user >>
     ELSE LET c1 == get_default_project(Ctx, fk_enforced)
              c2 == get_default_user(c1, fk_enforced)
          IN /\ db' = c2.db
             /\ pending' = c2.pending
             /\ seq' = c2.seq
             /\ default_project' = c1.ret
             /\ default_user' = c2.ret
             /\ session' = "open"
             /\ contacted' = {"blob", "quickbooks", "database"}
             /\ summary' = << >>
             /\ queried' = fetch_invoices(limit).asked
             /\ qb_invoices' = get_invoices(limit)
             /\ pc' = "for"
  /\ UNCHANGED << env, peer, committed, blobs, uuid, qb_lpo, db_lpo, db_invoice, err, outcomes >>

\* Mutant of Skip: the skipped invoice is logged and not counted.
SkipUncounted(reason) ==
  /\ outcomes' = Append(outcomes, Outcome("Skipped", reason, ""))
  /\ idx' = idx + 1
  /\ pc' = "for"
  /\ UNCHANGED << counts, db, pending, committed, seq, blobs >>

\* Mutant of Skip: the skip rolls the open transaction back.
SkipRollsBack(reason) ==
  /\ counts' = [counts EXCEPT !.skipped = @ + 1]
  /\ outcomes' = Append(outcomes, Outcome("Skipped", reason, ""))
  /\ idx' = idx + 1
  /\ pc' = "for"
  /\ db' = Rollback.db
  /\ pending' = Rollback.pending
  /\ UNCHANGED << committed, seq, blobs >>

\* A `continue` of the loop: the invoice is counted as skipped, nothing is undone
\* and nothing is written.
Skip(reason) ==
  /\ counts' = [counts EXCEPT !.skipped = @ + 1]
  /\ outcomes' = Append(outcomes, Outcome("Skipped", reason, ""))
  /\ idx' = idx + 1
  /\ pc' = "for"
  /\ UNCHANGED << db, pending, committed, seq, blobs >>

\* for qb_invoice in qb_invoices: the DocNumber test.
NextInvoice ==
  /\ pc = "for"
  /\ idx <= Len(qb_invoices)
  /\ IF qb_invoices[idx].DocNumber = ""
     THEN Skip("no DocNumber")
     ELSE /\ pc' = "duplicate_check"
          /\ UNCHANGED << counts, outcomes, idx, db, pending, committed, seq, blobs >>
  /\ UNCHANGED << env, peer, run, qb_invoices, uuid,
                  default_project, default_user, qb_lpo, db_lpo, db_invoice, err,
                  start_store, trail >>

\* Mutant of existing_invoice: the duplicate check never finds the invoice.
existing_invoice_ignored(d, invoice_number) == {}

\* db.query(models.Invoice).filter_by(invoice_number=invoice_number).first()
existing_invoice(d, invoice_number) ==
  First({i \in d.invoices : i.invoice_number = invoice_number})

\* 2. Check for Duplicates
DuplicateCheck ==
  /\ pc = "duplicate_check"
  /\ IF existing_invoice(db, qb_invoices[idx].DocNumber) # {}
     THEN Skip("Already exists")
     ELSE /\ pc' = "lpo_check"
          /\ UNCHANGED << counts, outcomes, idx, db, pending, committed, seq, blobs >>
  /\ UNCHANGED << env, peer, run, qb_invoices, uuid,
                  default_project, default_user, qb_lpo, db_lpo, db_invoice, err,
                  start_store, trail >>

\* Mutant of LpoCheck: a missing purchase order is raised as an error instead of
\* being skipped.
LpoCheckRaises ==
  /\ pc = "lpo_check"
  /\ LET lpo == get_lpo_for_invoice(qb_invoices[idx])
     IN IF lpo = << >>
        THEN /\ err' = "No related LPO"
             /\ pc' = "except"
             /\ UNCHANGED << qb_lpo, counts, outcomes, idx, db, pending, committed, seq, blobs >>
        ELSE /\ qb_lpo' = lpo[1].Id
             /\ pc' = "find_or_create_lpo"
             /\ UNCHANGED << err, counts, outcomes, idx, db, pending, committed, seq, blobs >>
  /\ UNCHANGED << env, peer, run, qb_invoices, uuid,
                  default_project, default_user, db_lpo, db_invoice, start_store, trail >>

\* 3. Check for LPO
LpoCheck ==
  /\ pc = "lpo_check"
  /\ LET lpo == get_lpo_for_invoice(qb_invoices[idx])
     IN IF lpo = << >>
        THEN Skip("No related LPO") /\ UNCHANGED qb_lpo
        ELSE IF lpo[1].DocNumber = ""
        THEN Skip("LPO has no DocNumber") /\ UNCHANGED qb_lpo
        ELSE /\ qb_lpo' = lpo[1].Id
             /\ pc' = "find_or_create_lpo"
             /\ UNCHANGED << counts, outcomes, idx, db, pending, committed, seq, blobs >>
  /\ UNCHANGED << env, peer, run, qb_invoices, uuid,
                  default_project, default_user, db_lpo, db_invoice, err, start_store, trail >>

\* Mutant of existing_lpo: the order lookup never finds the row.
existing_lpo_ignored(d, lpo_number) == {}

\* db.query(models.LPO).filter_by(lpo_number=lpo_number).first()
existing_lpo(d, lpo_number) ==
  First({l \in d.lpos : l.lpo_number = lpo_number})

\* 4. Process LPO (Find or Create)
FindOrCreateLpo ==
  /\ pc = "find_or_create_lpo"
  /\ LET po == QBPurchaseOrders[qb_lpo]
         found == existing_lpo(db, po.DocNumber)
     IN IF found # {}
        THEN /\ db_lpo' = CHOOSE l \in found : TRUE
             /\ pc' = "create_invoice"
             /\ UNCHANGED << db, pending, seq, blobs, uuid, err >>
        ELSE LET c == create_lpo(Ctx, po, default_project, default_user,
                                 blob_service_client, fk_enforced)
             IN /\ db' = c.db
                /\ pending' = c.pending
                /\ seq' = c.seq
                /\ blobs' = c.blobs
                /\ uuid' = c.uuid
                /\ err' = c.err
                /\ db_lpo' = IF c.err = "" THEN c.obj ELSE db_lpo
                /\ pc' = IF c.err = "" THEN "create_invoice" ELSE "except"
  /\ UNCHANGED << env, peer, run, qb_invoices, idx, committed, default_project, default_user,
                  qb_lpo, db_invoice, counts, outcomes, start_store, trail >>

\* 5.-7. Create Invoice, its items and its attachments
CreateInvoice ==
  /\ pc = "create_invoice"
  /\ LET c == create_invoice(Ctx, qb_invoices[idx], db_lpo, blob_service_client, fk_enforced)
     IN /\ db' = c.db
        /\ pending' = c.pending
        /\ seq' = c.seq
        /\ blobs' = c.blobs
        /\ uuid' = c.uuid
        /\ err' = c.err
        /\ db_lpo' = [db_lpo EXCEPT !.id = c.lpo_id]
        /\ db_invoice' = c.invoice_id
        /\ pc' = IF c.err = "" THEN "commit" ELSE "except"
  /\ UNCHANGED << env, peer, run, qb_invoices, idx, committed, default_project, default_user,
                  qb_lpo, counts, outcomes, start_store, trail >>

\* db.commit(): flushes what is pending, then makes the transaction durable.
Commit ==
  /\ pc = "commit"
  /\ LET c == Flush(Ctx, fk_enforced)
     IN IF c.err = ""
        THEN /\ db' = Merge(committed, c.db)
             /\ pending' = c.pending
             /\ seq' = c.seq
             /\ committed' = Merge(committed, c.db)
             /\ db_lpo' = [db_lpo EXCEPT !.id = c.lpo_id]
             /\ db_invoice' = c.invoice_id
             /\ counts' = [counts EXCEPT !.success = @ + 1]
             /\ outcomes' = Append(outcomes,
                  Outcome("Committed", "",
                          IF db_lpo.id \in Ids(committed.lpos) THEN "" ELSE qb_lpo))
             /\ idx' = idx + 1
             /\ pc' = "for"
             /\ UNCHANGED err
        ELSE /\ err' = c.err
             /\ pc' = "except"
             /\ UNCHANGED << db, pending, seq, committed, db_lpo, db_invoice, counts,
                             outcomes, idx >>
  /\ UNCHANGED << env, peer, run, qb_invoices, blobs, uuid, default_project,
                  default_user, qb_lpo, start_store, trail >>

\* Mutant of HandleException: the exception leaves the loop (no inner except
\* clause), the outer handler rolls back and the run ends.
HandleExceptionAborts ==
  /\ pc = "except"
  /\ db' = committed
  /\ pending' = << >>
  /\ err' = ""
  /\ pc' = "done"
  /\ UNCHANGED << env, peer, run, qb_invoices, idx, committed, seq, blobs, uuid,
                  default_project, default_user, qb_lpo, db_lpo, db_invoice,
                  counts, outcomes, start_store, trail >>

\* except Exception: log, roll back, count the failure.
HandleException ==
  /\ pc = "except"
  /\ db' = Rollback.db
  /\ pending' = Rollback.pending
  /\ counts' = [counts EXCEPT !.fail = @ + 1]
  /\ outcomes' = Append(outcomes, Outcome("Failed", err, ""))
  /\ err' = ""
  /\ idx' = idx + 1
  /\ pc' = "for"
  /\ UNCHANGED << env, peer, run, qb_invoices, committed, seq, blobs, uuid, default_project,
                  default_user, qb_lpo, db_lpo, db_invoice, start_store, trail >>

\* Mutant of Finish: no finally clause, the session stays open and no summary
\* is logged.
FinishWithoutFinally ==
  /\ pc = "for"
  /\ idx > Len(qb_invoices)
  /\ pc' = "done"
  /\ UNCHANGED << env, peer, run, qb_invoices, idx, db, pending, committed, seq, blobs, uuid,
                  default_project, default_user, qb_lpo, db_lpo, db_invoice, err,
                  counts, outcomes, start_store, trail >>

\* finally: db.close() discards what was never committed; the summary is logged.
Finish ==
  /\ pc = "for"
  /\ idx > Len(qb_invoices)
  /\ db' = committed
  /\ pending' = << >>
  /\ pc' = "done"
  /\ session' = "closed"
  /\ summary' = << counts >>
  /\ UNCHANGED << env, peer, run, qb_invoices, idx, committed, seq, blobs, uuid,
                  default_project, default_user, qb_lpo, db_lpo, db_invoice, err,
                  counts, outcomes, start_store, contacted, queried >>

Next ==
  \/ StartRun
  \/ NextInvoice
  \/ DuplicateCheck
  \/ LpoCheck
  \/ FindOrCreateLpo
  \/ CreateInvoice
  \/ Commit
  \/ HandleException
  \/ Finish

Spec == Init /\ [][Next]_vars

\* The importer in every environment of RunInit.
RunSpec == RunInit /\ [][Next]_vars

\* The importer called with a limit.
LimitSpec == LimitInit /\ [][Next]_vars

\* The importer against the long result sets of PageInit.
PageSpec == PageInit /\ [][Next]_vars

\* The run is over and no further run will be started.
Stopped == pc = "done" /\ run = MaxRuns

\* process_imports is one sequential thread, and it always takes its next step:
\* weak fairness of Next.  Every position of the thread but the last has a step,
\* so ENABLED <<Next>>_vars is ~Stopped, and WF_vars(Next), which is
\* []<>~ENABLED <<Next>>_vars \/ []<><<Next>>_vars, is written with it.
FairSpec == Spec /\ ([]<>Stopped \/ []<><<Next>>_vars)

\* ============================================================ the properties
RunOutcomes(r) == SelectSeq(outcomes, LAMBDA o : o.run = r)

Committed(o) == o.result = "Committed"
Skipped(o) == o.result = "Skipped"
Failed(o) == o.result = "Failed"

\* The purchase orders the listed invoices link to have pairwise distinct numbers.
DistinctOrderNumbers ==
  \A i, j \in 1..Len(remote_invoices) :
     LET a == get_lpo_for_invoice(QBInvoices[remote_invoices[i]])
         b == get_lpo_for_invoice(QBInvoices[remote_invoices[j]])
     IN (a # << >> /\ b # << >> /\ a[1].DocNumber = b[1].DocNumber) => a[1].Id = b[1].Id

SecondRunDone == pc = "done" /\ run = 2

\* C1 as stated: after a second run over the same remote data the committed store
\* is the one the first run left, and every invoice of the second run is reported
\* Skipped as already existing.
C1_SecondRunAllAlreadyExist ==
  SecondRunDone =>
    /\ committed = start_store
    /\ \A k \in 1..Len(RunOutcomes(2)) :
          Skipped(RunOutcomes(2)[k]) /\ RunOutcomes(2)[k].reason = "Already exists"

\* C1 amended: when the linked purchase orders have pairwise distinct numbers, the
\* second run adds no row; an invoice whose number the first run left in the store
\* is Skipped as already existing, and every other invoice gets the outcome and
\* reason it got in the first run.
C1_SecondRunAddsNothing ==
  (SecondRunDone /\ DistinctOrderNumbers) =>
    /\ committed = start_store
    /\ Len(RunOutcomes(2)) = Len(RunOutcomes(1))
    /\ \A k \in 1..Len(RunOutcomes(2)) :
          LET o1 == RunOutcomes(1)[k]
              o2 == RunOutcomes(2)[k]
          IN IF \E i \in start_store.invoices : i.invoice_number = o2.number
             THEN Skipped(o2) /\ o2.reason = "Already exists"
             ELSE o2.result = o1.result /\ o2.reason = o1.reason

\* C1 witness: a second run is over in which one invoice was skipped as already
\* existing and another one failed again, the first run having committed rows.
C1_Witness ==
  /\ SecondRunDone
  /\ DistinctOrderNumbers
  /\ start_store.invoices # {}
  /\ \E k \in 1..Len(RunOutcomes(2)) : RunOutcomes(2)[k].reason = "Already exists"
  /\ \E k \in 1..Len(RunOutcomes(2)) : Failed(RunOutcomes(2)[k])

\* Rows staged by the transaction in progress: flushed ones and pending ones.
StagedRows(t) ==
  (db[t] \ committed[t]) \cup
  {pending[k].row : k \in {j \in 1..Len(pending) : pending[j].table = t}}

\* C2: when an invoice's processing raised (control is in the except clause), the
\* step that follows leaves the committed store exactly as it was (every earlier
\* row is still there, unchanged), keeps none of the rows staged for the invoice,
\* and leaves the session holding nothing but the committed rows.
C2_Atomicity ==
  [][pc = "except" =>
       /\ committed' = committed
       /\ \A t \in Tables : committed'[t] \cap (db[t] \ committed[t]) = {}
       /\ db' = committed'
       /\ pending' = << >>
       /\ \A i \in committed'.invoices :
             i.invoice_number # qb_invoices[idx].DocNumber]_vars

\* C2 witness: an invoice raised after its header, an item and a new material were
\* staged, while an earlier invoice of the run is committed.
C2_Witness ==
  /\ pc = "except"
  /\ StagedRows("invoices") # {}
  /\ StagedRows("invoice_items") # {}
  /\ StagedRows("materials") # {}
  /\ \E k \in 1..Len(outcomes) : Committed(outcomes[k]) /\ outcomes[k].run = run

UniqueNumbers(d) ==
  /\ \A a, b \in d.invoices : a.invoice_number = b.invoice_number => a = b
  /\ \A a, b \in d.lpos : a.lpo_number = b.lpo_number => a = b

\* No object is staged for a document number that a row already has.
NothingRecreated ==
  \A k \in 1..Len(pending) :
     /\ pending[k].table = "invoices" =>
           \A i \in db.invoices : i.invoice_number # pending[k].row.invoice_number
     /\ pending[k].table = "lpos" =>
           \A l \in db.lpos : l.lpo_number # pending[k].row.lpo_number

\* C3: the committed store and the session hold at most one invoice per invoice
\* number and one order per order number, no object is ever staged for a number
\* already present, and a committed invoice or order row stays as it is.
C3_DocumentNumbersUnique ==
  /\ [](UniqueNumbers(committed) /\ UniqueNumbers(db) /\ NothingRecreated)
  /\ [][/\ committed.invoices \subseteq committed'.invoices
        /\ committed.lpos \subseteq committed'.lpos]_vars

\* C3 witness: in a second run an invoice was skipped as already existing, and the
\* store holds two invoices linked to one order (the order was reused).
C3_Witness ==
  /\ pc = "done"
  /\ run = 2
  /\ \E k \in 1..Len(outcomes) : outcomes[k].reason = "Already exists"
  /\ \E a, b \in committed.invoices : a # b /\ a.lpo_id = b.lpo_id

RunComplete ==
  /\ pc = "done"
  /\ Len(RunOutcomes(run)) = Len(qb_invoices)
  /\ qb_invoices = get_invoices(limit)

InDeliveryOrder ==
  \A r \in 1..run :
     \A k \in 1..Len(RunOutcomes(r)) :
        /\ RunOutcomes(r)[k].pos = k
        /\ RunOutcomes(r)[k].invoice = remote_invoices[k]

\* C4: the outcomes of a run are recorded in delivery order, the step after a
\* failure moves the loop to the next invoice, and every run that started ends
\* with an outcome for each invoice of the list.
C4_FailuresNeverAbort ==
  /\ []InDeliveryOrder
  /\ [][pc = "except" =>
          /\ pc' = "for"
          /\ idx' = idx + 1
          /\ Failed(outcomes'[Len(outcomes')])]_vars
  /\ (run >= 1) ~> RunComplete

\* C4 witness: a run is over whose first invoice failed and whose second invoice
\* was processed after it.
C4_Witness ==
  /\ RunComplete
  /\ Len(RunOutcomes(run)) >= 2
  /\ Failed(RunOutcomes(run)[1])
  /\ ~Failed(RunOutcomes(run)[2])

\* ----------------------------------------------- one invoice, as a function
\* The body of the for loop for one invoice, start to commit or rollback: what
\* the actions NextInvoice .. HandleException do in sequence.  store is what is
\* durable afterwards.
import_invoice(ctx, qb_invoice, project_id, user_id, bsc, fk, durable) ==
  LET skipped(reason) == [result |-> "Skipped", reason |-> reason, store |-> durable]
      failed(reason) == [result |-> "Failed", reason |-> reason, store |-> durable]
      finish(c) == LET f == Flush(c, fk)
                   IN IF f.err # "" THEN failed(f.err)
                      ELSE [result |-> "Committed", reason |-> "", store |-> f.db]
      invoice(c, lpo) ==
        LET c1 == create_invoice(c, qb_invoice, lpo, bsc, fk)
        IN IF c1.err # "" THEN failed(c1.err) ELSE finish(c1)
  IN IF qb_invoice.DocNumber = "" THEN skipped("no DocNumber")
     ELSE IF existing_invoice(ctx.db, qb_invoice.DocNumber) # {}
     THEN skipped("Already exists")
     ELSE LET lpo == get_lpo_for_invoice(qb_invoice)
          IN IF lpo = << >> THEN skipped("No related LPO")
             ELSE IF lpo[1].DocNumber = "" THEN skipped("LPO has no DocNumber")
             ELSE LET found == existing_lpo(ctx.db, lpo[1].DocNumber)
                  IN IF found # {}
                     THEN invoice(ctx, CHOOSE l \in found : TRUE)
                     ELSE LET c == create_lpo(ctx, lpo[1], project_id, user_id, bsc, fk)
                          IN IF c.err # "" THEN failed(c.err)
                             ELSE invoice(c, c.obj)

\* A first run of process_imports, over an empty store, whose list holds the
\* one invoice.
import_alone(qb_invoice, bsc, fk) ==
  LET c0 == [db |-> EmptyDB, pending |-> << >>, seq |-> FirstIds, blobs |-> {},
             uuid |-> 1, lpo_id |-> 0, invoice_id |-> 0, err |-> "", ret |-> 0,
             url |-> << >>, obj |-> NoLpo, hidden |-> EmptyDB, locked |-> EmptyDB]
      c1 == get_default_project(c0, fk)
      c2 == get_default_user(c1, fk)
  IN import_invoice(c2, qb_invoice, c1.ret, c2.ret, bsc, fk, EmptyDB)

\* The rows of a store by their business keys, references followed to the key
\* of the row they name ("?" when no such row exists).
NaturalKeys(d) ==
  LET name(rows, id) == IF \E r \in rows : r.id = id
                        THEN (CHOOSE r \in rows : r.id = id).name ELSE "?"
      email(rows, id) == IF \E r \in rows : r.id = id
                         THEN (CHOOSE r \in rows : r.id = id).email ELSE "?"
      doc(number, r) == [number |-> number, supplier |-> name(d.suppliers, r.supplier_id),
                         project |-> name(d.projects, r.project_id),
                         created_by |-> email(d.users, r.created_by_id),
                         grand_total |-> r.grand_total]
  IN [projects |-> {r.name : r \in d.projects},
      users |-> {r.email : r \in d.users},
      suppliers |-> {r.name : r \in d.suppliers},
      materials |-> {r.name : r \in d.materials},
      lpos |-> {doc(r.lpo_number, r) : r \in d.lpos},
      invoices |-> {doc(r.invoice_number, r) : r \in d.invoices}]

\* C5: when every earlier invoice of a first run has Failed, the last invoice of
\* the list gets the outcome, and the store the rows, of the run whose list holds
\* that invoice alone (the run with every earlier Failed invoice removed).
C5_FailureIsolation ==
  (/\ run = 1
   /\ pc = "done"
   /\ Len(outcomes) = Len(remote_invoices)
   /\ Len(outcomes) >= 2
   /\ \A k \in 1..(Len(outcomes) - 1) : Failed(outcomes[k])) =>
     LET last == outcomes[Len(outcomes)]
         alone == import_alone(QBInvoices[last.invoice], blob_service_client, fk_enforced)
     IN /\ last.result = alone.result
        /\ last.reason = alone.reason
        /\ NaturalKeys(committed) = NaturalKeys(alone.store)

\* The invoice carries no link to a purchase order.
NoOrderLinked(qb_invoice) ==
  \A n \in 1..Len(qb_invoice.LinkedTxn) : qb_invoice.LinkedTxn[n].TxnType # "PurchaseOrder"

\* C6: an invoice with a document number and without a linked purchase order is
\* Skipped (as having no order, or as already existing when an invoice of that
\* number was imported before), never Failed; nothing is ever staged for it, and
\* every committed invoice row comes from an invoice that has a linked order.
C6_SkipPrecedence ==
  /\ \A k \in 1..Len(outcomes) :
        LET o == outcomes[k]
        IN (o.number # "" /\ NoOrderLinked(QBInvoices[o.invoice])) =>
              /\ Skipped(o)
              /\ o.reason \in {"No related LPO", "Already exists"}
              /\ o.reason = "Already exists" =>
                    \E j \in 1..Len(outcomes) :
                       /\ j < k
                       /\ Committed(outcomes[j])
                       /\ outcomes[j].number = o.number
  /\ (pc \notin {"idle", "for", "done"} /\ NoOrderLinked(qb_invoices[idx])) =>
        /\ pc \in {"duplicate_check", "lpo_check"}
        /\ \A t \in Tables : StagedRows(t) \subseteq {r \in db[t] : t \in {"projects", "users"}}
  /\ \A i \in committed.invoices :
        \E k \in 1..Len(outcomes) :
           /\ Committed(outcomes[k])
           /\ outcomes[k].number = i.invoice_number
           /\ ~NoOrderLinked(QBInvoices[outcomes[k].invoice])

\* C6 witness: an invoice with a number and only a payment link was skipped for
\* having no order, after an earlier invoice of the run had failed.
C6_Witness ==
  \E k \in 1..Len(outcomes) :
     /\ outcomes[k].reason = "No related LPO"
     /\ outcomes[k].number # ""
     /\ QBInvoices[outcomes[k].invoice].LinkedTxn # << >>
     /\ NoOrderLinked(QBInvoices[outcomes[k].invoice])
     /\ k > 1
     /\ Failed(outcomes[k - 1])

\* The file names of the attachments of a remote object that have a name, a
\* download address, a content and a place in the blob store.
Relocatable(qb_object_id) ==
  LET atts == get_attachments(qb_object_id)
  IN {atts[n].FileName : n \in {m \in 1..Len(atts) :
                                   /\ atts[m].FileName # ""
                                   /\ atts[m].FileAccessUri # ""
                                   /\ atts[m].Download = "ok"
                                   /\ atts[m].Upload = "ok"}}

AttachmentsOf(d, invoice_number) ==
  {a.file_name : a \in {x \in d.invoice_attachments :
                          \E i \in d.invoices : /\ i.id = x.invoice_id
                                                /\ i.invoice_number = invoice_number}}

\* C7: no invoice is Failed because an attachment of it could not be obtained,
\* and a Committed invoice has an attachment row for each of its attachments
\* that downloads and relocates, and for no other.
C7_AttachmentIsolation ==
  \A k \in 1..Len(outcomes) :
     LET o == outcomes[k]
     IN /\ Failed(o) => o.reason # "Exception in download_attachment"
        /\ Committed(o) =>
              AttachmentsOf(committed, o.number) =
                 IF blob_service_client THEN Relocatable(o.invoice) ELSE {}

UniqueNames(d) ==
  /\ \A a, b \in d.suppliers : a.name = b.name => a = b
  /\ \A a, b \in d.materials : a.name = b.name => a = b

\* Resolving the vendor (the item) where the importer does it, before anything
\* is staged for the order: a row of that name is returned as it is and nothing
\* is written, otherwise one row of that name is added and returned.
ResolvesToTheRowOfThatName ==
  pc = "find_or_create_lpo" =>
    /\ \A v \in {w \in DOMAIN QBVendors : QBVendors[w].DisplayName # ""} :
          LET c == get_or_create_supplier(Ctx, QBVendors[v], fk_enforced)
              named(d) == {r \in d.suppliers : r.name = QBVendors[v].DisplayName}
          IN /\ c.err = ""
             /\ named(c.db) = {r \in c.db.suppliers : r.id = c.ret}
             /\ Cardinality(named(c.db)) = 1
             /\ named(db) # {} => c.db = db
    /\ \A i \in {j \in DOMAIN QBItems : QBItems[j].Name # ""} :
          LET c == get_or_create_material(Ctx, QBItems[i], fk_enforced)
              named(d) == {r \in d.materials : r.name = QBItems[i].Name}
          IN /\ c.err = ""
             /\ named(c.db) = {r \in c.db.materials : r.id = c.ret}
             /\ Cardinality(named(c.db)) = 1
             /\ named(db) # {} => c.db = db

\* Every committed order created for a remote order references the supplier row
\* that has the display name of the remote order's vendor.
OrdersReferenceTheirVendor ==
  \A k \in 1..Len(outcomes) :
     (Committed(outcomes[k]) /\ outcomes[k].created_lpo # "") =>
        LET po == QBPurchaseOrders[outcomes[k].created_lpo]
        IN \E l \in committed.lpos :
              /\ l.lpo_number = po.DocNumber
              /\ \E r \in committed.suppliers :
                    r.id = l.supplier_id /\ r.name = QBVendors[po.VendorRef].DisplayName

\* C8: the session and the committed store hold at most one supplier row per
\* display name and one material row per name, resolution returns the row of
\* the name, and every committed order references the one supplier row that has
\* its vendor's display name.
C8_ResolverReuse ==
  /\ UniqueNames(db)
  /\ UniqueNames(committed)
  /\ ResolvesToTheRowOfThatName
  /\ OrdersReferenceTheirVendor

\* C8 witness: two orders whose remote vendors are different records of one
\* display name are committed, there is one supplier row, and both reference it.
C8_Witness ==
  /\ \E j, k \in 1..Len(outcomes) :
        /\ Committed(outcomes[j]) /\ outcomes[j].created_lpo = "P1"
        /\ Committed(outcomes[k]) /\ outcomes[k].created_lpo = "P2"
  /\ Cardinality(committed.suppliers) = 1
  /\ Cardinality(committed.lpos) = 2
  /\ \A l \in committed.lpos : l.supplier_id \in Ids(committed.suppliers)

\* C9: in the committed store every invoice row has an order, a supplier, a
\* project and a user reference, every order row a supplier, a project and a
\* user reference, and every line-item row a material reference; none is NULL.
C9_ReferencesNotNull ==
  /\ \A i \in committed.invoices :
        i.lpo_id # 0 /\ i.supplier_id # 0 /\ i.project_id # 0 /\ i.created_by_id # 0
  /\ \A l \in committed.lpos :
        l.supplier_id # 0 /\ l.project_id # 0 /\ l.created_by_id # 0
  /\ \A x \in committed.lpo_items \cup committed.invoice_items : x.material_id # 0

\* C9 witness: an invoice was committed right after its order was created, the
\* order's lines needing no new material (so that nothing but the flush of the
\* order gave the order its id), and item rows of both kinds are committed.
C9_Witness ==
  /\ committed.lpo_items # {}
  /\ committed.invoice_items # {}
  /\ \E k \in 2..Len(outcomes) :
        /\ Committed(outcomes[k])
        /\ outcomes[k].created_lpo # ""
        /\ Committed(outcomes[k - 1])
        /\ outcomes[k - 1].run = outcomes[k].run

\* What the remote document reports: its tax (0 without a tax detail) and total.
RemoteTax(doc) == IF doc.TxnTaxDetail = << >> THEN 0 ELSE doc.TxnTaxDetail[1]

TaxDerived(row, doc) ==
  /\ row.tax_total = RemoteTax(doc)
  /\ row.grand_total = doc.TotalAmt
  /\ row.subtotal = row.grand_total - row.tax_total
  /\ row.subtotal + row.tax_total = row.grand_total

\* C10: every committed invoice row, and every committed order row, carries the
\* tax and the total of the remote document it was made from, and its subtotal
\* is the total less the tax (amounts in hundredths).
C10_TaxDerivation ==
  \A k \in 1..Len(outcomes) :
     Committed(outcomes[k]) =>
        /\ \E i \in committed.invoices :
              /\ i.invoice_number = outcomes[k].number
              /\ TaxDerived(i, QBInvoices[outcomes[k].invoice])
        /\ outcomes[k].created_lpo # "" =>
              \E l \in committed.lpos :
                 /\ l.lpo_number = QBPurchaseOrders[outcomes[k].created_lpo].DocNumber
                 /\ TaxDerived(l, QBPurchaseOrders[outcomes[k].created_lpo])

\* C10 witness: a committed row with total 105.00, tax 5.00 and subtotal 100.00,
\* and a committed row made from a document without tax detail.
C10_Witness ==
  /\ \E l \in committed.lpos \cup committed.invoices :
        l.grand_total = 10500 /\ l.tax_total = 500 /\ l.subtotal = 10000
  /\ \E k \in 1..Len(outcomes) :
        /\ Committed(outcomes[k])
        /\ QBInvoices[outcomes[k].invoice].TxnTaxDetail = << >>
        /\ \E i \in committed.invoices :
              /\ i.invoice_number = outcomes[k].number
              /\ i.tax_total = 0
              /\ i.subtotal = i.grand_total
              /\ i.grand_total > 0

\* The lines of a remote document that become item rows: item-based lines of
\* the document's kind whose item can be fetched.
ItemLines(doc, kind) ==
  {n \in 1..Len(doc.Line) : /\ doc.Line[n].DetailType = kind
                            /\ doc.Line[n].ItemRef # << >>
                            /\ doc.Line[n].ItemRef[1] \in DOMAIN QBItems}

\* The rates the claim allows for a line: 0.00 when the tax code is "NON" or
\* absent, 0.05 for another non-empty code (in hundredths); it is silent about
\* an empty code.
ClaimedRates(line) ==
  IF line.TaxCodeRef = << >> \/ line.TaxCodeRef[1] = "NON" THEN {0}
  ELSE IF line.TaxCodeRef[1] # "" THEN {5}
  ELSE {0, 5}

MaterialName(d, id) ==
  IF \E m \in d.materials : m.id = id
  THEN (CHOOSE m \in d.materials : m.id = id).name ELSE "?"

\* The item rows of a document are the rows of its item lines, each with a rate
\* the claim allows for its line.
RatesAsClaimed(d, rows, doc, kind) ==
  /\ \A r \in rows :
        \E n \in ItemLines(doc, kind) :
           /\ QBItems[doc.Line[n].ItemRef[1]].Name = MaterialName(d, r.material_id)
           /\ r.tax_rate \in ClaimedRates(doc.Line[n])
  /\ \A n \in ItemLines(doc, kind) :
        \E r \in rows :
           /\ QBItems[doc.Line[n].ItemRef[1]].Name = MaterialName(d, r.material_id)
           /\ r.tax_rate \in ClaimedRates(doc.Line[n])

\* C11: the item rows of every committed invoice, and of the order created with
\* it, carry tax rate 0.00 for a line whose tax code is "NON" or absent and 0.05
\* for a line with any other non-empty code; no item row, staged or committed,
\* has another rate.
C11_LineTaxRate ==
  /\ \A t \in {"lpo_items", "invoice_items"} :
        \A r \in db[t] \cup committed[t] \cup StagedRows(t) : r.tax_rate \in {0, 5}
  /\ \A k \in 1..Len(outcomes) :
        Committed(outcomes[k]) =>
          /\ \E i \in committed.invoices :
                /\ i.invoice_number = outcomes[k].number
                /\ RatesAsClaimed(committed,
                                  {x \in committed.invoice_items : x.invoice_id = i.id},
                                  QBInvoices[outcomes[k].invoice], "SalesItemLineDetail")
          /\ outcomes[k].created_lpo # "" =>
                \E l \in committed.lpos :
                   /\ l.lpo_number = QBPurchaseOrders[outcomes[k].created_lpo].DocNumber
                   /\ RatesAsClaimed(committed,
                                     {x \in committed.lpo_items : x.lpo_id = l.id},
                                     QBPurchaseOrders[outcomes[k].created_lpo],
                                     "ItemBasedExpenseLineDetail")

\* C11 witness: committed item rows made from a line with code "TAX" (0.05),
\* from a line with code "NON" and from a line without tax code (0.00).
C11_Witness ==
  /\ \E k \in 1..Len(outcomes) : Committed(outcomes[k]) /\ outcomes[k].invoice = "N1"
  /\ \E k \in 1..Len(outcomes) : Committed(outcomes[k]) /\ outcomes[k].invoice = "N2"
  /\ \E r \in committed.invoice_items :
        r.tax_rate = 5 /\ MaterialName(committed, r.material_id) = "Steel"
  /\ \E r \in committed.invoice_items :
        r.tax_rate = 0 /\ MaterialName(committed, r.material_id) = "Labour"
  /\ \E r \in committed.invoice_items :
        r.tax_rate = 0 /\ MaterialName(committed, r.material_id) = "Steel"

\* C12: in an environment that lacks one of the required QuickBooks settings,
\* every run is over at once: no storage session was opened, no collaborator
\* (QuickBooks, blob service, database) was called, no row is staged or
\* committed, no blob stored, no invoice considered and no summary logged.
C12_ConfigurationError ==
  ((\E k \in QBKeys : k \notin qb_keys) /\ run >= 1) =>
     /\ pc = "done"
     /\ session = "none"
     /\ contacted = {}
     /\ \A t \in Tables : db[t] = {} /\ committed[t] = {}
     /\ pending = << >>
     /\ blobs = {}
     /\ qb_invoices = << >>
     /\ outcomes = << >>
     /\ summary = << >>

\* C12 witness: a run is over in an environment where only the company id is
\* missing, the Source holding invoices that could be imported.
C12_Witness ==
  /\ qb_keys = QBKeys \ {"QB_REALM_ID"}
  /\ run >= 1
  /\ pc = "done"
  /\ remote_invoices = << "N1", "N2" >>

\* C13: a run called with the limit n gives an outcome to at most n invoices.
C13_LimitCap ==
  \A r \in 1..run : Len(RunOutcomes(r)) <= limit[1]

\* The run passed the credential check.
PassedCredentialCheck == run >= 1 /\ \A k \in QBKeys : k \in qb_keys

\* C14 as stated: every run that passed the credential check ends with the
\* storage session closed and the summary logged, whatever was raised on the way.
C14_ClosedAndSummarised ==
  (PassedCredentialCheck /\ pc = "done") => (session = "closed" /\ summary # << >>)

\* C14 amended: an exception on its way is always at the handler of the invoice
\* loop (none leaves process_imports), a run that passed the credential check
\* holds its session open until it ends and ends with the session closed; it
\* logs the summary of its counts, one count per invoice considered, unless
\* QuickBooks did not connect, in which case it ends without a summary.
C14_NothingEscapes ==
  /\ err # "" => pc = "except"
  /\ (PassedCredentialCheck /\ pc # "done") => (session = "open" /\ summary = << >>)
  /\ (PassedCredentialCheck /\ pc = "done") =>
        /\ session = "closed"
        /\ pending = << >>
        /\ db = committed
        /\ IF qb_connects
           THEN /\ summary = << counts >>
                /\ counts.success + counts.skipped + counts.fail = Len(RunOutcomes(run))
           ELSE summary = << >>

\* C14 witness: a run is over in which the invoice query raised although the
\* Source holds invoices: the session is closed and the summary shows no invoice.
C14_Witness ==
  /\ query_raises
  /\ remote_invoices # << >>
  /\ pc = "done"
  /\ run >= 1
  /\ session = "closed"
  /\ summary = << [success |-> 0, skipped |-> 0, fail |-> 0] >>

\* C15: every committed order and invoice row names a project, a user and a
\* supplier row that the committed store holds.
C15_DefaultRowsExist ==
  \A r \in committed.lpos \cup committed.invoices :
     /\ r.project_id \in Ids(committed.projects)
     /\ r.created_by_id \in Ids(committed.users)
     /\ r.supplier_id \in Ids(committed.suppliers)

\* The steps of process_imports that the text of the loop allows, as pairs of
\* positions: start of a run, the checks of an invoice in their order, each
\* with its way out (skip, exception), the commit, the end of the run.
AllowedSteps ==
  {<< "idle", "for" >>, << "done", "for" >>, << "for", "done" >>,
   << "for", "for" >>, << "for", "duplicate_check" >>,
   << "duplicate_check", "for" >>, << "duplicate_check", "lpo_check" >>,
   << "lpo_check", "for" >>, << "lpo_check", "find_or_create_lpo" >>,
   << "find_or_create_lpo", "create_invoice" >>, << "find_or_create_lpo", "except" >>,
   << "create_invoice", "commit" >>, << "create_invoice", "except" >>,
   << "commit", "for" >>, << "commit", "except" >>,
   << "except", "for" >>}

\* The number of rows of a table that the open transaction has staged.
StagedCount(t) ==
  Cardinality(db[t] \ committed[t]) +
  Cardinality({k \in 1..Len(pending) : pending[k].table = t})

\* The number of attachments of a remote object that get an attachment row.
RelocatedCount(qb_object_id) ==
  IF blob_service_client THEN Cardinality(Relocatable(qb_object_id)) ELSE 0

\* C16: every step follows the order duplicate check, linked-order resolution,
\* order (staged and flushed only when no order row has the number), invoice,
\* commit; the commit is reached only with the invoice header, a row per item
\* line and a row per relocated attachment staged; an outcome is recorded once
\* per invoice, Committed by the commit only, and with it the loop has left the
\* invoice for good: nothing of it is staged any more, a skip wrote nothing.
C16_InvoiceStateMachine ==
  [][/\ << pc, pc' >> \in AllowedSteps
     /\ (pc = "find_or_create_lpo" /\ pc' = "create_invoice") =>
           IF \E l \in db.lpos : l.lpo_number = QBPurchaseOrders[qb_lpo].DocNumber
           THEN db' = db /\ pending' = pending /\ blobs' = blobs
           ELSE /\ pending' = << >>
                /\ \E l \in db'.lpos \ db.lpos :
                      l.lpo_number = QBPurchaseOrders[qb_lpo].DocNumber /\ l.id # 0
     /\ (pc = "create_invoice" /\ pc' = "commit") =>
           /\ StagedCount("invoices")' = 1
           /\ StagedCount("invoice_items")' =
                 Cardinality(ItemLines(qb_invoices[idx], "SalesItemLineDetail"))
           /\ StagedCount("invoice_attachments")' = RelocatedCount(qb_invoices[idx].Id)
     /\ outcomes' # outcomes =>
           /\ \E o \in {outcomes'[Len(outcomes')]} :
                 /\ outcomes' = Append(outcomes, o)
                 /\ o.run = run /\ o.pos = idx
                 /\ \A k \in 1..Len(outcomes) :
                       ~(outcomes[k].run = run /\ outcomes[k].pos = idx)
                 /\ Committed(o) <=> pc = "commit"
                 /\ Failed(o) <=> pc = "except"
                 /\ Skipped(o) <=> pc \in {"for", "duplicate_check", "lpo_check"}
                 /\ Skipped(o) => (db' = db /\ pending' = pending /\ blobs' = blobs)
                 /\ committed' # committed => Committed(o)
                 /\ ~Skipped(o) => (pending' = << >> /\ db' = committed')
           /\ idx' = idx + 1
           /\ pc' = "for"
     /\ committed' # committed => outcomes' # outcomes]_vars

\* C16 witness: an invoice is at its commit with header, two item rows and two
\* attachment rows staged, its order having been created and flushed before.
C16_Witness ==
  /\ pc = "commit"
  /\ StagedCount("invoices") = 1
  /\ StagedCount("invoice_items") = 2
  /\ StagedCount("invoice_attachments") = 2
  /\ StagedCount("lpos") = 1
  /\ db_lpo.id # 0

\* The positions of an invoice before anything is written for it.
Checks == {"for", "duplicate_check", "lpo_check"}

\* C17: from the moment the loop takes an invoice up to and including the step
\* that records it as Skipped no step stages, flushes, commits or uploads
\* anything, and a skip is recorded from these positions only: at the skip the
\* store and the blob container are as they were before the invoice.
C17_SkipsWriteNothing ==
  [][/\ (pc \in Checks /\ pc' \in Checks \cup {"find_or_create_lpo"}) =>
           /\ db' = db /\ pending' = pending /\ committed' = committed
           /\ seq' = seq /\ blobs' = blobs
     /\ (outcomes' # outcomes /\ Skipped(outcomes'[Len(outcomes')])) =>
           /\ pc \in Checks
           /\ outcomes'[Len(outcomes')].reason \in
                 {"no DocNumber", "Already exists", "No related LPO", "LPO has no DocNumber"}]_vars

\* C17 witness: an invoice has been skipped while the transaction of the run held
\* staged rows, which are still staged.
C17_Witness ==
  /\ pc = "for"
  /\ idx > 1
  /\ outcomes # << >>
  /\ Skipped(outcomes[Len(outcomes)])
  /\ outcomes[Len(outcomes)].run = run
  /\ db # committed

\* PurchaseOrder.get raises for the order that the invoice links to first.
OrderFetchRaises(qb_invoice) ==
  \E n \in 1..Len(qb_invoice.LinkedTxn) :
     /\ qb_invoice.LinkedTxn[n].TxnType = "PurchaseOrder"
     /\ qb_invoice.LinkedTxn[n].TxnId \notin DOMAIN QBPurchaseOrders
     /\ \A m \in 1..(n - 1) : qb_invoice.LinkedTxn[m].TxnType # "PurchaseOrder"

\* C18: an invoice that got as far as the fetch of its linked purchase order,
\* and whose fetch raises, is recorded as Failed, and nothing of it is committed.
C18_RemoteErrorsFail ==
  \A k \in 1..Len(outcomes) :
     LET o == outcomes[k]
     IN (/\ OrderFetchRaises(QBInvoices[o.invoice])
         /\ o.reason \notin {"no DocNumber", "Already exists"}) =>
           /\ Failed(o)
           /\ \A i \in committed.invoices : i.invoice_number # o.number

\* What the supplier step raises.
SupplierErrors ==
  {"LPO has no Supplier (VendorRef)", "Supplier not found in QB", "ValueError: no DisplayName"}

\* The remote order names no vendor, one that cannot be fetched, or one whose
\* DisplayName is empty.
SupplierFails(po) ==
  \/ po.VendorRef = ""
  \/ po.VendorRef \notin DOMAIN QBVendors
  \/ QBVendors[po.VendorRef].DisplayName = ""

\* C19: when the order step finds no order row of the linked order's number and
\* the order's supplier fails, the step raises and stages nothing; the invoice
\* is then recorded as Failed with that message, the committed store unchanged
\* and nothing left staged.
C19_SupplierFailure ==
  [][/\ (/\ pc = "find_or_create_lpo"
         /\ SupplierFails(QBPurchaseOrders[qb_lpo])
         /\ \A l \in db.lpos : l.lpo_number # QBPurchaseOrders[qb_lpo].DocNumber) =>
           /\ pc' = "except"
           /\ err' \in SupplierErrors
           /\ db' = db /\ pending' = pending /\ blobs' = blobs /\ committed' = committed
     /\ (pc = "except" /\ err \in SupplierErrors) =>
           /\ outcomes' = Append(outcomes, outcomes'[Len(outcomes')])
           /\ Failed(outcomes'[Len(outcomes')])
           /\ outcomes'[Len(outcomes')].reason = err
           /\ outcomes'[Len(outcomes')].invoice = qb_invoices[idx].Id
           /\ committed' = committed
           /\ db' = committed
           /\ pending' = << >>
           /\ \A i \in db'.invoices : i.invoice_number # qb_invoices[idx].DocNumber]_vars

\* C19 witness: an invoice failed on its supplier right after another invoice of
\* the run was committed, and the store holds the rows of that one only.
C19_Witness ==
  /\ Len(outcomes) >= 2
  /\ Failed(outcomes[Len(outcomes)])
  /\ outcomes[Len(outcomes)].reason \in SupplierErrors
  /\ Committed(outcomes[Len(outcomes) - 1])
  /\ outcomes[Len(outcomes) - 1].run = outcomes[Len(outcomes)].run
  /\ Cardinality(committed.invoices) = 1
  /\ Cardinality(committed.lpos) = 1
  /\ Cardinality(committed.suppliers) = 1
  /\ db = committed

\* The order rows that the open transaction has staged.
StagedOrders == db.lpos \ committed.lpos

\* C20: every committed order row is referenced by a committed invoice row; the
\* committed store changes only in the commit of an invoice, where each order
\* row it gains is referenced by the invoice row it gains; a failure discards
\* the staged order rows with the invoice.
C20_OrderAndInvoiceOneUnit ==
  /\ [](\A l \in committed.lpos : \E i \in committed.invoices : i.lpo_id = l.id)
  /\ [][/\ committed' # committed =>
              /\ pc = "commit" /\ pc' = "for"
              /\ Cardinality(committed'.invoices \ committed.invoices) = 1
              /\ \A i \in committed'.invoices \ committed.invoices :
                    /\ i.invoice_number = qb_invoices[idx].DocNumber
                    /\ committed'.lpos \ committed.lpos \subseteq {l \in StagedOrders : l.id = i.lpo_id}
                    /\ \E l \in committed'.lpos : l.id = i.lpo_id
        /\ (outcomes' # outcomes /\ Failed(outcomes'[Len(outcomes')])) =>
              /\ committed' = committed
              /\ db' = committed]_vars

\* C20 witness: a second invoice of the run failed after its order was flushed
\* (its id was handed out, the row is gone), the first being committed together
\* with its order.
C20_Witness ==
  /\ Len(outcomes) = 2
  /\ outcomes[1].run = 1 /\ outcomes[2].run = 1
  /\ Committed(outcomes[1]) /\ outcomes[1].created_lpo # ""
  /\ Failed(outcomes[2]) /\ outcomes[2].reason \notin SupplierErrors
  /\ Cardinality(committed.lpos) = 1
  /\ Cardinality(committed.invoices) = 1
  /\ seq.lpos = 3
  /\ StagedOrders = {}

\* The tables that hold an order and what its creation resolves.
OrderTables == {"lpos", "lpo_items", "lpo_attachments", "suppliers"}

\* C21: when an order row of the linked order's number exists, the order step
\* takes that row and writes nothing; up to and including the commit of the
\* invoice no order, order item, order attachment or supplier row is staged,
\* changed or added, and the commit adds one invoice row, of this invoice and
\* linked to that order, with item and attachment rows of this invoice only.
C21_OrderReuseUntouched ==
  [][/\ (/\ pc = "find_or_create_lpo"
         /\ \E l \in db.lpos : l.lpo_number = QBPurchaseOrders[qb_lpo].DocNumber) =>
           /\ pc' = "create_invoice"
           /\ db_lpo' \in db.lpos
           /\ db_lpo'.lpo_number = QBPurchaseOrders[qb_lpo].DocNumber
           /\ db' = db /\ pending' = pending /\ seq' = seq /\ blobs' = blobs
           /\ committed' = committed
     /\ (pc \in {"create_invoice", "commit"} /\ db_lpo \in committed.lpos) =>
           /\ \A t \in OrderTables : db'[t] = db[t] /\ committed'[t] = committed[t]
           /\ \A k \in 1..Len(pending') : pending'[k].table \notin OrderTables
           /\ db_lpo' = db_lpo
           /\ committed' # committed =>
                 \E i \in committed'.invoices \ committed.invoices :
                    /\ committed'.invoices = committed.invoices \cup {i}
                    /\ i.invoice_number = qb_invoices[idx].DocNumber
                    /\ i.lpo_id = db_lpo.id
                    /\ \A x \in committed'.invoice_items \ committed.invoice_items :
                          x.invoice_id = i.id
                    /\ \A x \in committed'.invoice_attachments \ committed.invoice_attachments :
                          x.invoice_id = i.id]_vars

\* C21 witness: the second invoice of a run was committed on the order that the
\* first created with an item and an attachment; the invoice brought an item and
\* an attachment of its own.
C21_Witness ==
  /\ Len(outcomes) = 2
  /\ Committed(outcomes[1]) /\ outcomes[1].created_lpo # ""
  /\ Committed(outcomes[2]) /\ outcomes[2].created_lpo = ""
  /\ Cardinality(committed.lpos) = 1
  /\ Cardinality(committed.invoices) = 2
  /\ committed.lpo_items # {}
  /\ committed.lpo_attachments # {}
  /\ \E i \in committed.invoices :
        /\ i.invoice_number = outcomes[2].number
        /\ \E x \in committed.invoice_items : x.invoice_id = i.id
        /\ \E x \in committed.invoice_attachments : x.invoice_id = i.id

\* C22: every committed invoice row links to a committed order row and carries
\* that row's supplier, project and user references.
C22_Inheritance ==
  \A i \in committed.invoices :
     \E l \in committed.lpos :
        /\ l.id = i.lpo_id
        /\ i.supplier_id = l.supplier_id
        /\ i.project_id = l.project_id
        /\ i.created_by_id = l.created_by_id

\* C22 witness: an order created with its invoice in the first run is reused by
\* an invoice committed in the second run; both invoices are on that order.
C22_Witness ==
  /\ \E j, k \in 1..Len(outcomes) :
        /\ outcomes[j].run = 1 /\ Committed(outcomes[j]) /\ outcomes[j].created_lpo # ""
        /\ outcomes[k].run = 2 /\ Committed(outcomes[k]) /\ outcomes[k].created_lpo = ""
  /\ \E i1, i2 \in committed.invoices : i1 # i2 /\ i1.lpo_id = i2.lpo_id

\* The three kinds of line that the item loops pass over.
NotItemBased(line, kind) == line.DetailType # kind
NoItemRef(line, kind) ==
  line.DetailType = kind /\ (line.ItemRef = << >> \/ line.ItemRef[1] = "")
ItemNotFetched(line, kind) ==
  /\ line.DetailType = kind /\ line.ItemRef # << >> /\ line.ItemRef[1] # ""
  /\ line.ItemRef[1] \notin DOMAIN QBItems

\* The positions of the lines of a document that are none of the three kinds.
OtherLines(doc, kind) ==
  {n \in 1..Len(doc.Line) : /\ ~NotItemBased(doc.Line[n], kind)
                            /\ ~NoItemRef(doc.Line[n], kind)
                            /\ ~ItemNotFetched(doc.Line[n], kind)}

\* The item rows of a document are the rows of its other lines, one per line
\* and in the order of the lines (ids ascend with the line positions).
RowsInLineOrder(d, rows, doc, kind) ==
  /\ Cardinality(rows) = Cardinality(OtherLines(doc, kind))
  /\ \A n \in OtherLines(doc, kind) :
        \E r \in rows :
           /\ Cardinality({x \in rows : x.id < r.id}) =
                 Cardinality({m \in OtherLines(doc, kind) : m < n})
           /\ MaterialName(d, r.material_id) = QBItems[doc.Line[n].ItemRef[1]].Name
           /\ r.quantity = OrZero(doc.Line[n].Qty)
           /\ r.rate = OrZero(doc.Line[n].UnitPrice)

\* An item of the document's other lines has no Name (material resolution raises).
UnnamedItem(doc, kind) ==
  \E n \in OtherLines(doc, kind) : QBItems[doc.Line[n].ItemRef[1]].Name = ""

\* C23: the committed item rows of every imported invoice, and of the order
\* created with it, are one row per line that is item-based, has an item
\* reference and a fetchable item, in line order; the other lines leave no row.
\* No invoice fails on its items unless an item of such a line has no name.
C23_LineSkips ==
  \A k \in 1..Len(outcomes) :
     LET o == outcomes[k]
         inv == QBInvoices[o.invoice]
         po == get_lpo_for_invoice(inv)
     IN /\ Committed(o) =>
             /\ \E i \in committed.invoices :
                   /\ i.invoice_number = o.number
                   /\ RowsInLineOrder(committed,
                         {x \in committed.invoice_items : x.invoice_id = i.id},
                         inv, "SalesItemLineDetail")
             /\ o.created_lpo # "" =>
                   \E l \in committed.lpos :
                      /\ l.lpo_number = QBPurchaseOrders[o.created_lpo].DocNumber
                      /\ RowsInLineOrder(committed,
                            {x \in committed.lpo_items : x.lpo_id = l.id},
                            QBPurchaseOrders[o.created_lpo], "ItemBasedExpenseLineDetail")
        /\ (Failed(o) /\ o.reason = "ValueError: no Name") =>
             \/ UnnamedItem(inv, "SalesItemLineDetail")
             \/ po # << >> /\ UnnamedItem(po[1], "ItemBasedExpenseLineDetail")

\* A line of the kind exists in the document, and so does a line that is kept.
HasSkip(doc, kind, Kind(_, _)) ==
  /\ \E n \in 1..Len(doc.Line) : Kind(doc.Line[n], kind)
  /\ OtherLines(doc, kind) # {}

\* C23 witness: two invoices are committed, each with item rows; between them
\* and the order created with one of them, every kind of skipped line occurs,
\* before a line that is kept.
C23_Witness ==
  \E j, k \in 1..Len(outcomes) :
     /\ Committed(outcomes[j]) /\ Committed(outcomes[k])
     /\ HasSkip(QBInvoices[outcomes[j].invoice], "SalesItemLineDetail", NotItemBased)
     /\ HasSkip(QBInvoices[outcomes[j].invoice], "SalesItemLineDetail", NoItemRef)
     /\ HasSkip(QBInvoices[outcomes[k].invoice], "SalesItemLineDetail", ItemNotFetched)
     /\ outcomes[k].created_lpo # ""
     /\ \E n, m \in 1..Len(QBPurchaseOrders[outcomes[k].created_lpo].Line) :
           /\ n < m
           /\ ItemNotFetched(QBPurchaseOrders[outcomes[k].created_lpo].Line[n],
                             "ItemBasedExpenseLineDetail")
           /\ m \in OtherLines(QBPurchaseOrders[outcomes[k].created_lpo],
                               "ItemBasedExpenseLineDetail")
     /\ Cardinality(committed.lpo_items) >= 3
     /\ Cardinality(committed.invoice_items) >= 3

\* C24: an order step that has to build the order, with a supplier that
\* resolves and an order line whose fetched item has no name, and an invoice
\* step with such a line, raise; the handler then records the invoice as Failed
\* and nothing staged for it is left.  No such invoice is ever Committed, no
\* order is created from such a remote order, no material row has an empty name.
C24_UnnamedItemFails ==
  /\ [](/\ \A k \in 1..Len(outcomes) :
              /\ UnnamedItem(QBInvoices[outcomes[k].invoice], "SalesItemLineDetail") =>
                    ~Committed(outcomes[k])
              /\ outcomes[k].created_lpo # "" =>
                    ~UnnamedItem(QBPurchaseOrders[outcomes[k].created_lpo],
                                 "ItemBasedExpenseLineDetail")
        /\ \A m \in db.materials : m.name # "")
  /\ [][/\ (/\ pc = "find_or_create_lpo"
            /\ \A l \in db.lpos : l.lpo_number # QBPurchaseOrders[qb_lpo].DocNumber
            /\ ~SupplierFails(QBPurchaseOrders[qb_lpo])
            /\ UnnamedItem(QBPurchaseOrders[qb_lpo], "ItemBasedExpenseLineDetail")) =>
              /\ pc' = "except"
              /\ err' \in {"ValueError: no Name", "IntegrityError"}
        /\ (pc = "create_invoice" /\ UnnamedItem(qb_invoices[idx], "SalesItemLineDetail")) =>
              /\ pc' = "except"
              /\ err' \in {"ValueError: no Name", "IntegrityError"}
        /\ (pc = "except" /\ err = "ValueError: no Name") =>
              /\ outcomes' = Append(outcomes, outcomes'[Len(outcomes')])
              /\ Failed(outcomes'[Len(outcomes')])
              /\ outcomes'[Len(outcomes')].reason = err
              /\ outcomes'[Len(outcomes')].invoice = qb_invoices[idx].Id
              /\ db' = committed /\ pending' = << >> /\ committed' = committed]_vars

\* C24 witness: after a committed invoice, the second invoice failed on an item
\* without name; its header had been flushed (the id is used up) with the
\* material of an earlier line, and neither is in the store.
C24_Witness ==
  /\ Len(outcomes) = 2
  /\ Committed(outcomes[1])
  /\ Failed(outcomes[2]) /\ outcomes[2].reason = "ValueError: no Name"
  /\ UnnamedItem(QBInvoices[outcomes[2].invoice], "SalesItemLineDetail")
  /\ Cardinality(committed.invoices) = 1
  /\ seq.invoices = 3
  /\ seq.materials > Cardinality(committed.materials) + 1
  /\ db = committed /\ pending = << >>

\* The session is left as it was by a resolver call that ended as c with row id.
ReturnsUntouched(c, id) ==
  /\ c.err = "" /\ c.ret = id
  /\ c.db = db /\ c.pending = pending /\ c.seq = seq

\* C25: in every state, resolving a remote vendor whose display name a supplier
\* row has, but whose email or phone differ from the row's, returns that row and
\* writes nothing; likewise a remote item whose name a material row has and
\* whose type gives another unit.  No step changes a supplier or material row
\* or adds a row under a name that a row already has.
C25_NoUpdateOnConflict ==
  /\ [](/\ \A s \in db.suppliers : \A v \in DOMAIN QBVendors :
              (/\ QBVendors[v].DisplayName = s.name
               /\ (QBVendors[v].Email # s.email \/ QBVendors[v].Phone # s.phone)) =>
                 ReturnsUntouched(get_or_create_supplier(Ctx, QBVendors[v], fk_enforced), s.id)
        /\ \A m \in db.materials : \A i \in DOMAIN QBItems :
              (QBItems[i].Name = m.name /\ Unit(QBItems[i]) # m.unit) =>
                 ReturnsUntouched(get_or_create_material(Ctx, QBItems[i], fk_enforced), m.id))
  /\ [][/\ \A r \in db'.suppliers :
              /\ (\E o \in db.suppliers : o.id = r.id) => r \in db.suppliers
              /\ r \notin db.suppliers => \A o \in db.suppliers : o.name # r.name
        /\ \A r \in db'.materials :
              /\ (\E o \in db.materials : o.id = r.id) => r \in db.materials
              /\ r \notin db.materials => \A o \in db.materials : o.name # r.name]_vars

\* C25 witness: a committed order was built from a remote order whose vendor
\* has the display name of the supplier row it references but another email,
\* and one of its item rows is on a material whose unit is not the unit of the
\* line's item.
C25_Witness ==
  \E k \in 1..Len(outcomes) :
     /\ Committed(outcomes[k]) /\ outcomes[k].created_lpo # ""
     /\ LET po == QBPurchaseOrders[outcomes[k].created_lpo]
        IN \E l \in committed.lpos :
              /\ l.lpo_number = po.DocNumber
              /\ \E s \in committed.suppliers :
                    /\ s.id = l.supplier_id
                    /\ s.name = QBVendors[po.VendorRef].DisplayName
                    /\ s.email # QBVendors[po.VendorRef].Email
              /\ \E x \in committed.lpo_items : \E m \in committed.materials :
                    /\ x.lpo_id = l.id /\ m.id = x.material_id
                    /\ \E n \in OtherLines(po, "ItemBasedExpenseLineDetail") :
                          /\ QBItems[po.Line[n].ItemRef[1]].Name = m.name
                          /\ Unit(QBItems[po.Line[n].ItemRef[1]]) # m.unit

\* The number of queries an unlimited fetch makes when none raises: one per
\* page that holds an invoice and one more, which finds nothing.
QueriesToTheEnd == (Len(remote_invoices) + MaxResults - 1) \div MaxResults + 1

\* A query of the run's fetch raised.
FetchRaised == query_raises /\ raising_query <= QueriesToTheEnd

\* C26: in a run without limit the queries of the fetch start at positions 1,
\* 101, 201, ...; when none raises, every query but the last starts inside the
\* result set, the last is the first to start behind it (the empty page), and
\* the list the run iterates over is the whole result set in delivery order.
C26_Pagination ==
  (run >= 1 /\ limit = << >>) =>
     /\ \A j \in 1..Len(queried) : queried[j] = 1 + (j - 1) * MaxResults
     /\ ~FetchRaised =>
           /\ Len(queried) = QueriesToTheEnd
           /\ queried[Len(queried)] > Len(remote_invoices)
           /\ \A j \in 1..(Len(queried) - 1) : queried[j] <= Len(remote_invoices)
           /\ Len(qb_invoices) = Len(remote_invoices)
           /\ \A i \in 1..Len(qb_invoices) : qb_invoices[i].Id = remote_invoices[i]

\* C26 witness: a result set of two full pages and one invoice was fetched with
\* four queries, and the run has gone through all of it.
C26_Witness ==
  /\ pc = "done"
  /\ ~query_raises
  /\ Len(remote_invoices) = 2 * MaxResults + 1
  /\ queried = << 1, 101, 201, 301 >>
  /\ Len(RunOutcomes(run)) = 2 * MaxResults + 1

\* C27: where the settings are complete and QuickBooks does not connect, every
\* run is over at once with the storage session closed: no invoice query was
\* made, no invoice considered, nothing staged or committed (the default project
\* and user included, no id was handed out) and no blob stored.
C27_ConnectionError ==
  (qb_keys = QBKeys /\ ~qb_connects /\ run >= 1) =>
     /\ pc = "done"
     /\ session = "closed"
     /\ queried = << >>
     /\ qb_invoices = << >>
     /\ outcomes = << >>
     /\ counts = [success |-> 0, skipped |-> 0, fail |-> 0]
     /\ db = EmptyDB /\ committed = EmptyDB /\ pending = << >>
     /\ seq = FirstIds
     /\ default_project = 0 /\ default_user = 0
     /\ blobs = {}
     /\ "database" \notin contacted

\* C27 witness: the second run is over where QuickBooks does not connect and
\* the Source holds invoices that could be imported; QuickBooks was called.
C27_Witness ==
  /\ qb_keys = QBKeys /\ ~qb_connects
  /\ run = 2
  /\ pc = "done"
  /\ "quickbooks" \in contacted
  /\ remote_invoices = << "N1", "N2" >>

\* The run got to the invoice loop: settings, QuickBooks and database in order.
ReachedLoop == run >= 1 /\ qb_keys = QBKeys /\ qb_connects /\ db_available

\* The number of outcomes of the current run with the result.
Counted(result) ==
  Cardinality({k \in 1..Len(outcomes) :
                 outcomes[k].run = run /\ outcomes[k].result = result})

\* C28: in a run that reached the loop the three counts are the numbers of
\* invoices of the run logged as Committed, Skipped and Failed, every invoice
\* the loop is done with has exactly one outcome, and the success count is the
\* number of invoice rows committed since the run began; when the run is over
\* the counts add up to the number of invoices fetched and are the summary.
C28_OutcomeAccounting ==
  ReachedLoop =>
     /\ counts.success = Counted("Committed")
     /\ counts.skipped = Counted("Skipped")
     /\ counts.fail = Counted("Failed")
     /\ counts.success + counts.skipped + counts.fail = idx - 1
     /\ \A n \in 1..(idx - 1) :
           Cardinality({k \in 1..Len(outcomes) :
                          outcomes[k].run = run /\ outcomes[k].pos = n}) = 1
     /\ start_store.invoices \subseteq committed.invoices
     /\ counts.success = Cardinality(committed.invoices \ start_store.invoices)
     /\ pc = "done" =>
           /\ counts.success + counts.skipped + counts.fail = Len(qb_invoices)
           /\ summary = << counts >>

\* C28 witness: the second run is over with one invoice skipped as already
\* imported and one imported, the first run having imported one and failed one.
C28_Witness ==
  /\ ReachedLoop
  /\ run = 2
  /\ pc = "done"
  /\ counts = [success |-> 1, skipped |-> 1, fail |-> 0]
  /\ Cardinality(start_store.invoices) = 1
  /\ Cardinality(committed.invoices) = 2
  /\ \E k \in 1..Len(outcomes) : outcomes[k].run = 1 /\ Failed(outcomes[k])

\* C29: in a run without limit in which a query of the fetch raises, the
\* queries end with that one and the run iterates over nothing, whatever the
\* queries before it delivered: no invoice gets an outcome, nothing is ever
\* committed, and the run ends with an empty session and the summary 0, 0, 0.
C29_FailedPageDiscardsFetch ==
  (run >= 1 /\ limit = << >> /\ FetchRaised) =>
     /\ Len(queried) = raising_query
     /\ qb_invoices = << >>
     /\ outcomes = << >>
     /\ committed = EmptyDB
     /\ blobs = {}
     /\ pc \in {"for", "done"}
     /\ pc = "done" =>
           /\ db = EmptyDB /\ pending = << >>
           /\ summary = << [success |-> 0, skipped |-> 0, fail |-> 0] >>

\* C29 witness: the third query raised after two full pages had been delivered;
\* the run is over.
C29_Witness ==
  /\ query_raises /\ raising_query = 3
  /\ Len(remote_invoices) >= 2 * MaxResults
  /\ queried = << 1, 101, 201 >>
  /\ pc = "done"
  /\ run = 1

\* The blob addresses that the attachment rows of a store reference.
Referenced(d) ==
  {x.blob_url : x \in d.lpo_attachments \cup d.invoice_attachments}

\* The blob addresses that the attachment rows staged by the open transaction
\* reference.
StagedBlobs ==
  {x.blob_url : x \in StagedRows("lpo_attachments") \cup StagedRows("invoice_attachments")}

\* C30: every attachment row, committed or staged, references a blob that is in
\* the container; no step removes a blob; the handler of a failed invoice
\* leaves the container as it is, so the blobs uploaded for the invoice are
\* still there while no row of the session references them any more.
C30_BlobsOutliveRollback ==
  /\ [](/\ Referenced(committed) \subseteq blobs
        /\ Referenced(db) \cup StagedBlobs \subseteq blobs)
  /\ [][/\ blobs \subseteq blobs'
        /\ pc = "except" =>
              /\ blobs' = blobs
              /\ \A u \in StagedBlobs :
                    /\ u \in blobs'
                    /\ u \notin Referenced(db')
              /\ pending' = << >>]_vars

\* C30 witness: an invoice failed after a blob had been uploaded for it; the
\* blob is in the container, no row references it, and the rows of the invoice
\* committed before it reference blobs of their own.
C30_Witness ==
  /\ Len(outcomes) = 2
  /\ Committed(outcomes[1])
  /\ Failed(outcomes[2])
  /\ pc = "for"
  /\ db = committed /\ pending = << >>
  /\ Referenced(committed) # {}
  /\ blobs \ Referenced(committed) # {}


\* ------------------------------------------------------- two concurrent runs
\* An invoice of an earlier state of the Source (order P0 of vendor V0).
EarlierInvoice ==
  QBInvoice("N0", "INV0", << Linked("PurchaseOrder", "P0") >>, 300, << >>, 0,
            << SalesLine(<<"I0">>, <<"NON">>, <<3>>, <<100>>) >>)

\* An earlier run of process_imports over an empty store, the Source holding
\* EarlierInvoice alone: default rows, order, invoice, commit.
EarlierRun ==
  LET c0 == [db |-> EmptyDB, pending |-> << >>, seq |-> FirstIds, blobs |-> {},
             uuid |-> 1, lpo_id |-> 0, invoice_id |-> 0, err |-> "", ret |-> 0,
             url |-> << >>, obj |-> NoLpo, hidden |-> EmptyDB, locked |-> EmptyDB]
      c1 == get_default_project(c0, TRUE)
      c2 == get_default_user(c1, TRUE)
      c3 == create_lpo(c2, QBPurchaseOrders["P0"], c1.ret, c2.ret, TRUE, TRUE)
      c4 == create_invoice(c3, EarlierInvoice, c3.obj, TRUE, TRUE)
  IN Flush(c4, TRUE).db

\* The store that run left behind (the value of EarlierRun, written out): the
\* default rows and the rows of EarlierInvoice.
EarlierStore ==
  [projects |-> {[id |-> 1, name |-> "Default Imported Project"]},
   users |-> {[id |-> 1, email |-> "import_admin@yourcompany.com"]},
   suppliers |-> {[id |-> 1, name |-> "Zed", email |-> "z@zed", phone |-> ""]},
   materials |-> {[id |-> 1, name |-> "Zinc", unit |-> "each"]},
   lpos |-> {[id |-> 1, lpo_number |-> "L0", supplier_id |-> 1, project_id |-> 1,
              created_by_id |-> 1, status |-> "Closed", subtotal |-> 300,
              tax_total |-> 0, grand_total |-> 300]},
   invoices |-> {[id |-> 1, lpo_id |-> 1, invoice_number |-> "INV0", supplier_id |-> 1,
                  project_id |-> 1, created_by_id |-> 1, status |-> "Paid",
                  subtotal |-> 300, tax_total |-> 0, grand_total |-> 300]},
   lpo_items |-> {[id |-> 1, lpo_id |-> 1, material_id |-> 1, description |-> "po line",
                   quantity |-> 3, rate |-> 100, tax_rate |-> 0]},
   invoice_items |-> {[id |-> 1, invoice_id |-> 1, material_id |-> 1,
                       description |-> "inv line", quantity |-> 3, rate |-> 100,
                       tax_rate |-> 0]},
   lpo_attachments |-> {},
   invoice_attachments |-> {}]

\* The next id of every table of a store.
NextIds(d) ==
  [t \in Tables |-> IF d[t] = {} THEN 1
                    ELSE 1 + CHOOSE n \in Ids(d[t]) : \A m \in Ids(d[t]) : m <= n]

\* The invoices the Source holds while the two processes run: two of one order
\* number (N1, N3; N3 fails where no order of that number is found), two whose
\* orders name one vendor name and one item name (N1, N2), and one that shares
\* its order with N2, its number with N1 and has an item of its own (N4).
RaceInvoices == {"N1", "N2", "N3", "N4"}

\* Invoice.query delivers every invoice once.
RaceLists ==
  UNION {{l \in [1..n -> RaceInvoices] : \A i, j \in 1..n : l[i] = l[j] => i = j} :
           n \in 1..MaxInvoices}

\* Two importer processes are about to be started against the store of an
\* earlier run; each makes one run.
RaceInit ==
  /\ remote_invoices \in RaceLists
  /\ fk_enforced = TRUE
  /\ blob_service_client = TRUE
  /\ qb_keys = QBKeys
  /\ qb_connects = TRUE
  /\ db_available = TRUE
  /\ query_raises = FALSE
  /\ raising_query = 1
  /\ limit = << >>
  /\ parked = NotStarted(EarlierStore, MaxRuns - 1)
  /\ session = "none"
  /\ contacted = {}
  /\ summary = << >>
  /\ queried = << >>
  /\ run = MaxRuns - 1
  /\ pc = "idle"
  /\ qb_invoices = << >>
  /\ idx = 0
  /\ db = EarlierStore
  /\ pending = << >>
  /\ committed = EarlierStore
  /\ seq = NextIds(EarlierStore)
  /\ blobs = {}
  /\ uuid = 1
  /\ default_project = 0
  /\ default_user = 0
  /\ qb_lpo = ""
  /\ db_lpo = NoLpo
  /\ db_invoice = 0
  /\ err = ""
  /\ counts = [success |-> 0, skipped |-> 0, fail |-> 0]
  /\ outcomes = << >>
  /\ start_store = EarlierStore

\* The operating system runs the other process.  The statements of the process
\* that resumes read what is committed by now (READ COMMITTED), or they read
\* what its transaction has read before (a snapshot: REPEATABLE READ, or a read
\* made before the other process committed).
Switch ==
  /\ parked.pc # "done"
  /\ parked' = Local
  /\ run' = parked.run
  /\ pc' = parked.pc
  /\ qb_invoices' = parked.qb_invoices
  /\ idx' = parked.idx
  /\ db' \in {parked.db, Merge(parked.db, committed)}
  /\ pending' = parked.pending
  /\ default_project' = parked.default_project
  /\ default_user' = parked.default_user
  /\ qb_lpo' = parked.qb_lpo
  /\ db_lpo' = parked.db_lpo
  /\ db_invoice' = parked.db_invoice
  /\ err' = parked.err
  /\ counts' = parked.counts
  /\ outcomes' = parked.outcomes
  /\ start_store' = parked.start_store
  /\ session' = parked.session
  /\ contacted' = parked.contacted
  /\ summary' = parked.summary
  /\ queried' = parked.queried
  /\ UNCHANGED << env, committed, seq, blobs, uuid >>

RaceNext == Next \/ Switch

\* Two importer processes against one store, their steps interleaved.
RaceSpec == RaceInit /\ [][RaceNext]_vars


\* Every row the database holds: what is committed and what either process has
\* inserted and not committed.
AllRows == Merge(Merge(db, committed), parked.db)

\* The rows of the database that the reads of the running process do not show.
Unseen == Merge(Less(committed, db), Less(parked.db, committed))

NaturalKeysUnique(d) == UniqueNumbers(d) /\ UniqueNames(d)

\* The names of the items that the item lines of a document name.
LineItemNames(doc, kind) ==
  {QBItems[doc.Line[n].ItemRef[1]].Name : n \in ItemLines(doc, kind)}

\* A row the running process does not see holds the number of the invoice the
\* process is on.
NumberTaken ==
  \E i \in Unseen.invoices : i.invoice_number = qb_invoices[idx].DocNumber

\* The invoice header of the running process is staged and not flushed yet.
HeaderStaged ==
  \E k \in 1..Len(pending) :
     /\ pending[k].table = "invoices"
     /\ pending[k].row.invoice_number = qb_invoices[idx].DocNumber

\* The step the running process is about to take has to insert a row under a
\* natural key that a row it does not see holds: where it sees no order of the
\* linked order's number, that number, the name of the order's vendor or the
\* name of an item of the order; the name of an item of the invoice, no row of
\* that name being in sight; or, for the step that flushes the invoice header,
\* the number of the invoice.
LosesRace ==
  LET qb_invoice == qb_invoices[idx]
      po == QBPurchaseOrders[qb_lpo]
      unseen_materials(doc, kind) ==
        \E m \in Unseen.materials :
           /\ m.name \in LineItemNames(doc, kind)
           /\ \A x \in db.materials : x.name # m.name
  IN \/ /\ pc = "find_or_create_lpo"
        /\ existing_lpo(db, po.DocNumber) = {}
        /\ \/ \E l \in Unseen.lpos : l.lpo_number = po.DocNumber
           \/ /\ ~SupplierFails(po)
              /\ \E s \in Unseen.suppliers :
                    /\ s.name = QBVendors[po.VendorRef].DisplayName
                    /\ \A x \in db.suppliers : x.name # s.name
           \/ unseen_materials(po, "ItemBasedExpenseLineDetail")
     \/ /\ pc = "create_invoice"
        /\ unseen_materials(qb_invoice, "SalesItemLineDetail")
     \/ /\ pc = "commit"
        /\ HeaderStaged
        /\ NumberTaken

\* A step of the running process (not a switch to the other one).
OwnStep == parked' = parked /\ pc' # pc

\* C31: with two importer processes on one store, their steps interleaved in
\* any order, no two rows of the database, committed or not, ever hold the same
\* invoice number, order number, supplier name or material name, so the
\* committed store never does; a process whose step has to insert a key that a
\* row of the other process holds raises (for the invoice number: in the step
\* that flushes the header, the commit at the latest), and the handler records
\* that invoice as Failed, rolls back and moves to the next invoice of the
\* process.
C31_ConcurrentRuns ==
  /\ [](NaturalKeysUnique(committed) /\ NaturalKeysUnique(AllRows))
  /\ [][/\ (OwnStep /\ LosesRace) => (pc' = "except" /\ err' # "")
        /\ (OwnStep /\ pc = "create_invoice" /\ NumberTaken) =>
              \/ pc' = "except" /\ err' # ""
              \/ pc' = "commit" /\ HeaderStaged' /\ NumberTaken'
        /\ (OwnStep /\ pc = "except") =>
              /\ pc' = "for"
              /\ idx' = idx + 1
              /\ qb_invoices' = qb_invoices
              /\ counts' = [counts EXCEPT !.fail = @ + 1]
              /\ Len(outcomes') = Len(outcomes) + 1
              /\ SubSeq(outcomes', 1, Len(outcomes)) = outcomes
              /\ Failed(outcomes'[Len(outcomes')])
              /\ outcomes'[Len(outcomes')].invoice = qb_invoices[idx].Id
              /\ outcomes'[Len(outcomes')].reason = err
              /\ committed' = committed
              /\ db' = committed
              /\ pending' = << >>]_vars

\* C31 witness: the running process lost the race for an invoice that the other
\* process committed, recorded it as Failed, and went on to commit its next
\* invoice.
C31_Witness ==
  /\ Len(outcomes) = 2
  /\ Failed(outcomes[1])
  /\ outcomes[1].reason \in {"IntegrityError", "OperationalError"}
  /\ Committed(outcomes[2])
  /\ \E k \in 1..Len(parked.outcomes) :
        /\ Committed(parked.outcomes[k])
        /\ parked.outcomes[k].invoice = outcomes[1].invoice
  /\ NaturalKeysUnique(committed)

==============================================================================
